---- MODULE Spec2Model ----
(***************************************************************************)
(* A model of the CAN explorer pipeline: the ingestion of report workbooks  *)
(* into the DuckDB store (ingest.py), the insight scanners (insights.py)    *)
(* the fetch of the municipal statistics (kolada.py) and the readers of the *)
(* store (app.py, chat_engine.py).                                          *)
(*                                                                           *)
(* Text is a sequence of characters, a character a one-element string; the  *)
(* characters outside ASCII carry a name: "nbsp" (U+00A0), "ndash" (U+2013),*)
(* "hellip" (U+2026), "a_ring", "a_uml", "o_uml" and their capitals.          *)
(***************************************************************************)
EXTENDS Integers, Sequences, FiniteSets, TLC

VARIABLES
    arg,        \* the argument of a call of one of the cell-level functions
    ret,        \* what that call returned (NotCalled before the call)
    pc,         \* where ingest_all stands
    report_idx, \* ingest_all: the index of the report at hand
    pending,    \* ingest_all: the sheet names of the open workbook still to come
    all_frames, \* ingest_all: the frames of the sheets parsed so far
    stats,      \* ingest_all: files, sheets, rows, skipped
    combined,   \* ingest_all: the deduplicated records
    conflicts,  \* ingest_all: the keys the integrity check reported
    db,         \* the DuckDB file: its tables
    runs,       \* the runs of ingest_all started so far
    last_read,  \* history: what the last query of a reader in this run returned
    eligible,   \* history: the sheets of the workbooks opened in this run that
                \* pass the name filters
    prior,      \* history: the tables as they were when this run started
    ipc,        \* where run_all_insights stands
    idf,        \* run_all_insights: the rows load_all_series returned
    found,      \* run_all_insights: what the three scanners returned
    iruns,      \* the runs of run_all_insights started so far
    kpc,        \* where fetch_and_store_kolada stands
    kdf,        \* fetch_and_store_kolada: the rows fetched
    kruns       \* the runs of fetch_and_store_kolada started so far

fnvars == <<arg, ret>>
insvars == <<ipc, idf, found, iruns>>
kolvars == <<kpc, kdf, kruns>>
ingvars == <<pc, report_idx, pending, all_frames, stats, combined, conflicts, runs,
             last_read, eligible, prior>>
sysvars == <<pc, report_idx, pending, all_frames, stats, combined, conflicts, db, runs,
             last_read, eligible, prior, ipc, idf, found, iruns, kpc, kdf, kruns>>
vars == <<arg, ret, pc, report_idx, pending, all_frames, stats, combined, conflicts, db,
          runs, last_read, eligible, prior, ipc, idf, found, iruns, kpc, kdf, kruns>>

----------------------------------------------------------------------------
(* Characters and text                                                      *)

UpperChars == <<"A","B","C","D","E","F","G","H","I","J","K","L","M",
                "N","O","P","Q","R","S","T","U","V","W","X","Y","Z">>
LowerChars == <<"a","b","c","d","e","f","g","h","i","j","k","l","m",
                "n","o","p","q","r","s","t","u","v","w","x","y","z">>
DigitChars == <<"0","1","2","3","4","5","6","7","8","9">>

Range(f) == {f[i] : i \in DOMAIN f}

IsDigit(c) == c \in Range(DigitChars)
IsAsciiLetter(c) == c \in Range(UpperChars) \cup Range(LowerChars)
\* str.strip() and the regex class \s: Unicode white space, U+00A0 included
IsSpace(c) == c \in {" ", "nbsp", "tab", "nl"}
\* the regex class \w on str: Unicode letters, digits and the underscore
IsWord(c) ==
    \/ IsDigit(c) \/ IsAsciiLetter(c)
    \/ c \in {"_", "a_ring", "a_uml", "o_uml", "A_ring", "A_uml", "O_uml"}

DigitVal(c) == (CHOOSE i \in DOMAIN DigitChars : DigitChars[i] = c) - 1

LowerChar(c) ==
    IF c \in Range(UpperChars)
    THEN LowerChars[CHOOSE i \in DOMAIN UpperChars : UpperChars[i] = c]
    ELSE CASE c = "A_ring" -> "a_ring"
           [] c = "A_uml" -> "a_uml"
           [] c = "O_uml" -> "o_uml"
           [] OTHER -> c

\* str.lower()
Lower(s) == [i \in DOMAIN s |-> LowerChar(s[i])]

RECURSIVE LStrip(_)
LStrip(s) == IF s # <<>> /\ IsSpace(Head(s)) THEN LStrip(Tail(s)) ELSE s

RECURSIVE RStrip(_)
RStrip(s) ==
    IF s # <<>> /\ IsSpace(s[Len(s)]) THEN RStrip(SubSeq(s, 1, Len(s) - 1)) ELSE s

\* str.strip()
Strip(s) == RStrip(LStrip(s))

\* s.startswith(p)
StartsWith(s, p) == Len(s) >= Len(p) /\ SubSeq(s, 1, Len(p)) = p

\* p in s
Contains(s, p) ==
    \E i \in 1..(Len(s) - Len(p) + 1) : SubSeq(s, i, i + Len(p) - 1) = p

RECURSIVE Filter(_, _)
\* s without the characters of the set drop
Filter(s, drop) ==
    IF s = <<>> THEN <<>>
    ELSE IF Head(s) \in drop THEN Filter(Tail(s), drop)
    ELSE <<Head(s)>> \o Filter(Tail(s), drop)

RECURSIVE Pow10(_)
Pow10(n) == IF n = 0 THEN 1 ELSE 10 * Pow10(n - 1)

RECURSIVE NumDigits(_)
NumDigits(n) == IF n < 10 THEN 1 ELSE 1 + NumDigits(n \div 10)

RECURSIVE StrOfNat(_)
StrOfNat(n) ==
    IF n < 10 THEN <<DigitChars[n + 1]>>
    ELSE StrOfNat(n \div 10) \o <<DigitChars[(n % 10) + 1]>>

\* str(n) of a Python int
StrOfInt(n) == IF n < 0 THEN <<"-">> \o StrOfNat(0 - n) ELSE StrOfNat(n)

RECURSIVE NatOfDigits(_)
\* int(s) of a string of decimal digits
NatOfDigits(s) ==
    IF s = <<>> THEN 0
    ELSE 10 * NatOfDigits(SubSeq(s, 1, Len(s) - 1)) + DigitVal(s[Len(s)])

----------------------------------------------------------------------------
(* Cells: openpyxl hands a cell over as None, a str, or an int/float.  A    *)
(* number is kept as the text str() gives for it, the only way the parsers  *)
(* look at it.                                                              *)

EmptyCell == [tag |-> "Empty", s |-> <<>>]
Text(s) == [tag |-> "Text", s |-> s]
Number(s) == [tag |-> "Number", s |-> s]

IsNone(cell) == cell.tag = "Empty"
IsStr(cell) == cell.tag = "Text"
\* str(val) of a cell that is not None
Str(cell) == cell.s

----------------------------------------------------------------------------
(* float(): the value as an exact decimal m * 10^e (m without trailing      *)
(* zeros), or nan, inf, -inf, or the ValueError of a text that is no float  *)
(* literal.  Binary rounding is not modelled.                               *)

FloatMaxExp10 == 308

NoneF == [kind |-> "None", neg |-> FALSE, m |-> 0, e |-> 0]
NaN == [kind |-> "nan", neg |-> FALSE, m |-> 0, e |-> 0]
Inf(neg) == [kind |-> "inf", neg |-> neg, m |-> 0, e |-> 0]
ValueErrorF == [kind |-> "ValueError", neg |-> FALSE, m |-> 0, e |-> 0]

RECURSIVE Normalize(_, _, _)
Normalize(neg, m, e) ==
    IF m = 0 THEN [kind |-> "fin", neg |-> FALSE, m |-> 0, e |-> 0]
    ELSE IF m % 10 = 0 THEN Normalize(neg, m \div 10, e + 1)
    ELSE IF NumDigits(m) + e > FloatMaxExp10 + 1 THEN Inf(neg)
    ELSE [kind |-> "fin", neg |-> neg, m |-> m, e |-> e]

Fin(neg, m, e) == Normalize(neg, m, e)

\* a group of digits, single underscores allowed between two digits
DigitGroupOK(d) ==
    /\ d # <<>>
    /\ \A i \in DOMAIN d : IsDigit(d[i]) \/ d[i] = "_"
    /\ IsDigit(d[1]) /\ IsDigit(d[Len(d)])
    /\ \A i \in 1..(Len(d) - 1) : ~(d[i] = "_" /\ d[i + 1] = "_")

DigitsOf(d) == Filter(d, {"_"})

\* the index of the first character of s that is in the set cs, 0 if none
FirstIn(s, cs) ==
    IF \E i \in DOMAIN s : s[i] \in cs
    THEN CHOOSE i \in DOMAIN s : s[i] \in cs /\ \A j \in 1..(i - 1) : s[j] \notin cs
    ELSE 0

\* the decimal literal  digits [. digits] [e [sign] digits]  (sign taken off)
DecimalLiteral(neg, u) ==
    LET ei == FirstIn(u, {"e", "E"})
        mant == IF ei = 0 THEN u ELSE SubSeq(u, 1, ei - 1)
        expo == IF ei = 0 THEN <<>> ELSE SubSeq(u, ei + 1, Len(u))
        eneg == expo # <<>> /\ Head(expo) = "-"
        edig == IF expo # <<>> /\ Head(expo) \in {"+", "-"} THEN Tail(expo) ELSE expo
        di == FirstIn(mant, {"."})
        ip == IF di = 0 THEN mant ELSE SubSeq(mant, 1, di - 1)
        fp == IF di = 0 THEN <<>> ELSE SubSeq(mant, di + 1, Len(mant))
        ok == /\ ei # 0 => DigitGroupOK(edig)
              /\ ip # <<>> \/ fp # <<>>
              /\ ip # <<>> => DigitGroupOK(ip)
              /\ fp # <<>> => DigitGroupOK(fp)
        ev == IF ei = 0 THEN 0
              ELSE IF eneg THEN 0 - NatOfDigits(DigitsOf(edig))
              ELSE NatOfDigits(DigitsOf(edig))
    IN  IF ~ok THEN ValueErrorF
        ELSE Fin(neg, NatOfDigits(DigitsOf(ip) \o DigitsOf(fp)), ev - Len(DigitsOf(fp)))

\* float(s) of a str
FloatOf(s) ==
    LET t == Strip(s)
        neg == t # <<>> /\ Head(t) = "-"
        u == IF t # <<>> /\ Head(t) \in {"+", "-"} THEN Tail(t) ELSE t
        w == Lower(u)
    IN  IF w \in {<<"i","n","f">>, <<"i","n","f","i","n","i","t","y">>} THEN Inf(neg)
        ELSE IF w = <<"n","a","n">> THEN NaN
        ELSE DecimalLiteral(neg, u)

\* the magnitudes int() is asked for here are only compared with the year
\* range: one beyond IntClamp is reported as IntClamp
IntClamp == 1000000

\* int(f) of a float: truncation toward zero; OverflowError on an infinity,
\* ValueError on a nan
IntOf(f) ==
    CASE f.kind = "inf" -> [exc |-> "OverflowError", v |-> 0]
      [] f.kind = "nan" -> [exc |-> "ValueError", v |-> 0]
      [] OTHER ->
            LET mag == IF f.e >= 0
                       THEN IF NumDigits(f.m) + f.e > NumDigits(IntClamp)
                            THEN IntClamp
                            ELSE f.m * Pow10(f.e)
                       ELSE IF 0 - f.e > NumDigits(f.m) THEN 0
                            ELSE f.m \div Pow10(0 - f.e)
                clamped == IF mag > IntClamp THEN IntClamp ELSE mag
            IN  [exc |-> "", v |-> IF f.neg THEN 0 - clamped ELSE clamped]

----------------------------------------------------------------------------
(* parse_year_value, is_year_like                                           *)

YearMin == 1960
YearMax == 2030

NoYear == [exc |-> "", year |-> 0, label |-> <<>>, some |-> FALSE]
YearOf(y, label) == [exc |-> "", year |-> y, label |-> label, some |-> TRUE]
YearRaise(e) == [exc |-> e, year |-> 0, label |-> <<>>, some |-> FALSE]

\* re.match(r"^(\d{4})([a-zA-Z]?)$", s)
YearRegexMatches(s) ==
    /\ Len(s) \in {4, 5}
    /\ \A i \in 1..4 : IsDigit(s[i])
    /\ Len(s) = 5 => IsAsciiLetter(s[5])

\* a parse_year_value whose label is the plain year whatever the token
YearLabelPlain(s, year_int) == StrOfInt(year_int)

\* year_label = s if suffix else str(year_int)
YearLabel(s, year_int) == IF Len(s) = 5 THEN s ELSE StrOfInt(year_int)

parse_year_value(val) ==
    IF IsNone(val) THEN NoYear
    ELSE
    LET s == Strip(Str(val))
        m == YearRegexMatches(s)
        year_int == IF m THEN NatOfDigits(SubSeq(s, 1, 4)) ELSE 0
        f == FloatOf(s)
        v == IntOf(f)
    IN  IF m /\ YearMin <= year_int /\ year_int <= YearMax
        THEN YearOf(year_int, YearLabel(s, year_int))
        ELSE IF f.kind = "ValueError" THEN NoYear
        ELSE IF v.exc = "ValueError" THEN NoYear
        ELSE IF v.exc # "" THEN YearRaise(v.exc)
        ELSE IF YearMin <= v.v /\ v.v <= YearMax THEN YearOf(v.v, StrOfInt(v.v))
        ELSE NoYear

\* is_year_like: the year is not None (the exception of parse_year_value
\* passes through)
is_year_like(val) ==
    LET r == parse_year_value(val)
    IN  [exc |-> r.exc, b |-> r.some]

----------------------------------------------------------------------------
(* clean_numeric                                                            *)

MissingTokens ==
    { <<".">>, <<".", ".">>, <<"ndash">>, <<"-">>, <<"hellip">>, <<>>,
      <<"N","o","n","e">>, <<"n","o","n","e">>, <<"*">> }

\* a clean_numeric that removes the ordinary space only
RemoveOrdinarySpaces(s) == Filter(s, {" "})

\* s.replace(" ", "").replace("\xa0", "")
RemoveSpaces(s) == Filter(s, {" ", "nbsp"})

clean_numeric(val) ==
    IF IsNone(val) THEN NoneF
    ELSE
    LET s == Strip(Str(val))
        t == RemoveSpaces(s)
        f == FloatOf(t)
    IN  IF s \in MissingTokens THEN NoneF
        ELSE IF f.kind = "ValueError" THEN NoneF
        ELSE f

----------------------------------------------------------------------------
(* clean_column_name                                                        *)

Unknown == <<"u","n","k","n","o","w","n">>

RECURSIVE KeepWordAndSpace(_)
\* re.sub(r"[^\w\s...]", "", name): the three letters named are \w already
KeepWordAndSpace(s) ==
    IF s = <<>> THEN <<>>
    ELSE IF IsWord(Head(s)) \/ IsSpace(Head(s))
         THEN <<Head(s)>> \o KeepWordAndSpace(Tail(s))
         ELSE KeepWordAndSpace(Tail(s))

RECURSIVE SpacesToUnderscore(_)
\* re.sub(r"\s+", "_", name)
SpacesToUnderscore(s) ==
    IF s = <<>> THEN <<>>
    ELSE IF IsSpace(Head(s))
         THEN <<"_">> \o SpacesToUnderscore(LStrip(s))
         ELSE <<Head(s)>> \o SpacesToUnderscore(Tail(s))

RECURSIVE CollapseUnderscores(_)
\* re.sub(r"_+", "_", name)
CollapseUnderscores(s) ==
    IF s = <<>> THEN <<>>
    ELSE IF Head(s) = "_" /\ Len(s) > 1 /\ s[2] = "_"
         THEN CollapseUnderscores(Tail(s))
         ELSE <<Head(s)>> \o CollapseUnderscores(Tail(s))

RECURSIVE StripUnderscores(_)
\* name.strip("_")
StripUnderscores(s) ==
    IF s # <<>> /\ Head(s) = "_" THEN StripUnderscores(Tail(s))
    ELSE IF s # <<>> /\ s[Len(s)] = "_" THEN StripUnderscores(SubSeq(s, 1, Len(s) - 1))
    ELSE s

\* clean_column_name of a str (None gives "unknown")
clean_text(name) ==
    LET n == StripUnderscores(CollapseUnderscores(SpacesToUnderscore(
                 KeepWordAndSpace(Lower(Strip(name))))))
    IN  IF n = <<>> THEN Unknown ELSE n

clean_column_name(cell) == IF IsNone(cell) THEN Unknown ELSE clean_text(Str(cell))

----------------------------------------------------------------------------
(* Header disambiguation of parse_sheet_to_long ("Make unique")             *)

RECURSIVE UniqueFromOne(_, _, _)
\* a loop whose counter of a name starts at 1
UniqueFromOne(headers, i, seen) ==
    IF i > Len(headers) THEN <<>>
    ELSE LET h == headers[i]
         IN  IF h \in DOMAIN seen
             THEN <<h \o <<"_">> \o StrOfInt(seen[h] + 1)>>
                  \o UniqueFromOne(headers, i + 1, [seen EXCEPT ![h] = seen[h] + 1])
             ELSE <<h>> \o UniqueFromOne(headers, i + 1, (h :> 1) @@ seen)

RECURSIVE UniqueFrom(_, _, _)
\* the loop over headers[i..]: seen maps a name met before to its counter
UniqueFrom(headers, i, seen) ==
    IF i > Len(headers) THEN <<>>
    ELSE LET h == headers[i]
         IN  IF h \in DOMAIN seen
             THEN <<h \o <<"_">> \o StrOfInt(seen[h] + 1)>>
                  \o UniqueFrom(headers, i + 1, [seen EXCEPT ![h] = seen[h] + 1])
             ELSE <<h>> \o UniqueFrom(headers, i + 1, (h :> 0) @@ seen)

unique_headers(headers) == UniqueFrom(headers, 1, <<>>)

----------------------------------------------------------------------------
(* Sheets: a sheet is the sequence of its rows (ws.iter_rows), a row the    *)
(* sequence of its cells; a read-only worksheet may hand over rows of       *)
(* different lengths, the empty row included.  Row and column i of the      *)
(* code are row and column i + 1 here.                                      *)

TitleMinLen == 15
TitleScan == 5
WideScan == 8
WideMinYears == 3

Tillbaka == <<"t","i","l","l","b","a","k","a">>
Innehall == <<"i","n","n","e","h","a_ring","l","l">>

\* "tillbaka" in s.lower() or "innehåll" in s.lower()
IsNavigation(s) == Contains(Lower(s), Tillbaka) \/ Contains(Lower(s), Innehall)

NoTitle == [some |-> FALSE, s |-> <<>>]

\* the cells of the rows all_rows[from..], row after row
RECURSIVE CellsOf(_, _, _)
CellsOf(all_rows, from, to) ==
    IF from > to \/ from > Len(all_rows) THEN <<>>
    ELSE all_rows[from] \o CellsOf(all_rows, from + 1, to)

extract_table_title(all_rows) ==
    LET cells == CellsOf(all_rows, 1, TitleScan)
        good(c) == IsStr(c) /\ Len(c.s) > TitleMinLen /\ ~IsNavigation(c.s)
        hits == SelectSeq(cells, good)
    IN  IF hits = <<>> THEN NoTitle ELSE [some |-> TRUE, s |-> Strip(hits[1].s)]

Record(year, year_label, variable, value, ctx) ==
    [ year |-> year, year_label |-> year_label, variable |-> variable,
      value |-> value, report |-> ctx.report, table_id |-> ctx.table_id,
      table_title |-> ctx.table_title, topic |-> ctx.topic ]

NoFrame == [exc |-> "", records |-> <<>>]
Raised(e) == [exc |-> e, records |-> <<>>]

\* the records of the candidates kept, in order
Kept(cands) ==
    LET kept == SelectSeq(cands, LAMBDA x : x.keep)
    IN  [i \in DOMAIN kept |-> kept[i].rec]

Footnotes ==
    { <<"K","a_uml","l","l","a">>, <<"N","o","t">>, <<"a",")">>, <<"b",")">>,
      <<"A","n","m">> }

\* no label is a footnote
IsFootnoteNever(label_stripped) == FALSE

IsFootnote(label_stripped) == \E p \in Footnotes : StartsWith(label_stripped, p)

\* is_indented of parse_wide_year_columns
IsIndented(label_str) ==
    LET label_stripped == Strip(label_str)
    IN  label_str # label_stripped /\ Len(label_str) > Len(label_stripped)

Sep2 == <<"_", "_">>

\* the variable of an indented row under current_parent
ChildVariable(current_parent, label_stripped) ==
    clean_text(current_parent \o Sep2 \o label_stripped)

\* the records of one row of a wide sheet under the given variable
WideRowRecords(row, year_map, variable, ctx) ==
    Kept([c \in DOMAIN year_map |->
            LET val == IF c <= Len(row) THEN clean_numeric(row[c]) ELSE NoneF
            IN  [ keep |-> year_map[c].some /\ c <= Len(row) /\ val # NoneF,
                  rec |-> Record(year_map[c].year, year_map[c].label, variable, val, ctx) ]])

RECURSIVE WideFrom(_, _, _, _, _)
\* the row loop of parse_wide_year_columns from row i on
WideFrom(all_rows, i, current_parent, year_map, ctx) ==
    IF i > Len(all_rows) THEN NoFrame
    ELSE IF all_rows[i] = <<>> THEN Raised("IndexError")
    ELSE
    LET row == all_rows[i]
        label == row[1]
        label_str == Str(label)
        label_stripped == Strip(label_str)
        skip == \/ IsNone(label)
                \/ (IsStr(label) /\ label_stripped = <<>>)
                \/ IsFootnote(label_stripped)
        child == IsIndented(label_str) /\ current_parent # <<>>
        parent == IF skip \/ child THEN current_parent ELSE label_stripped
        variable == IF child THEN ChildVariable(current_parent, label_stripped)
                    ELSE clean_text(label_stripped)
        rest == WideFrom(all_rows, i + 1, parent, year_map, ctx)
    IN  IF rest.exc # "" THEN rest
        ELSE IF skip THEN rest
        ELSE [exc |-> "", records |->
                 WideRowRecords(row, year_map, variable, ctx) \o rest.records]

parse_wide_year_columns(all_rows, year_row_idx, ctx) ==
    LET year_row == all_rows[year_row_idx]
        year_map == [c \in DOMAIN year_row |-> parse_year_value(year_row[c])]
    IN  IF \A c \in DOMAIN year_map : ~year_map[c].some THEN NoFrame
        ELSE WideFrom(all_rows, year_row_idx + 1, <<>>, year_map, ctx)

\* the first index at which the sequence of booleans holds TRUE, 0 if none
FirstTrue(flags) ==
    IF \E i \in DOMAIN flags : flags[i]
    THEN CHOOSE i \in DOMAIN flags : flags[i] /\ \A j \in 1..(i - 1) : ~flags[j]
    ELSE 0

FirstCell(row) == IF row # <<>> THEN row[1] ELSE EmptyCell

Max(a, b) == IF a >= b THEN a ELSE b
Min(a, b) == IF a <= b THEN a ELSE b

\* header_row_idx for the first year row data_start: the row above, or the
\* one above that when it holds no value (never above the first row)
HeaderRowIdx(all_rows, data_start) ==
    LET above == Max(1, data_start - 1)
    IN  IF \A c \in DOMAIN all_rows[above] : IsNone(all_rows[above][c])
        THEN Max(1, data_start - 2)
        ELSE above

Col(i) == <<"c","o","l","_">> \o StrOfInt(i)

\* the merge of the group row above the header row with the header row
MergedHeaders(group_row, raw_headers) ==
    LET n == Min(Len(group_row), Len(raw_headers))
        IsGroup(j) == /\ IsStr(group_row[j])
                      /\ Strip(group_row[j].s) # <<>>
                      /\ ~IsNavigation(Strip(group_row[j].s))
        current_group(i) ==
            IF \E j \in 1..i : IsGroup(j)
            THEN Strip(group_row[CHOOSE j \in 1..i :
                           IsGroup(j) /\ \A k \in (j + 1)..i : ~IsGroup(k)].s)
            ELSE <<>>
        sub_str(i) == IF IsNone(raw_headers[i]) THEN <<>> ELSE Strip(Str(raw_headers[i]))
    IN  [i \in 1..n |->
            IF current_group(i) # <<>> /\ sub_str(i) # <<>> /\ i > 1
            THEN current_group(i) \o Sep2 \o sub_str(i)
            ELSE IF sub_str(i) # <<>> THEN sub_str(i)
            ELSE IF current_group(i) # <<>> /\ i > 1 THEN current_group(i)
            ELSE Col(i - 1)]

\* the cleaned column names of a long sheet, before they are made unique
CleanHeaders(all_rows, header_row_idx) ==
    IF header_row_idx > 1
    THEN LET merged == MergedHeaders(all_rows[header_row_idx - 1], all_rows[header_row_idx])
         IN  [i \in DOMAIN merged |-> clean_text(merged[i])]
    ELSE [i \in DOMAIN all_rows[header_row_idx] |->
              clean_column_name(all_rows[header_row_idx][i])]

\* the records of one data row of a long sheet
LongRowRecords(row, headers, y, substance, ctx) ==
    Kept([c \in 1..Max(0, Min(Len(row), Len(headers)) - 1) |->
            LET val == clean_numeric(row[c + 1])
                var_name == IF substance # <<>>
                            THEN substance \o Sep2 \o headers[c + 1]
                            ELSE headers[c + 1]
            IN  [ keep |-> val # NoneF,
                  rec |-> Record(y.year, y.label, var_name, val, ctx) ]])

RECURSIVE LongFrom(_, _, _, _, _)
\* the data row loop of parse_sheet_to_long from row i on
LongFrom(all_rows, i, headers, substance, ctx) ==
    IF i > Len(all_rows) THEN NoFrame
    ELSE IF all_rows[i] = <<>> THEN Raised("IndexError")
    ELSE
    LET row == all_rows[i]
        y == parse_year_value(row[1])
        rest == LongFrom(all_rows, i + 1, headers, substance, ctx)
    IN  IF y.exc # "" THEN Raised(y.exc)
        ELSE IF rest.exc # "" THEN rest
        ELSE IF ~y.some THEN rest
        ELSE [exc |-> "", records |->
                 LongRowRecords(row, headers, y, substance, ctx) \o rest.records]

\* the number of year-like cells of a row and whether one of them raises,
\* from is_year_like of its cells
YearCountOf(likes) ==
    LET bad == FirstTrue([c \in DOMAIN likes |-> likes[c].exc # ""])
    IN  [ exc |-> IF bad = 0 THEN "" ELSE likes[bad].exc,
          n |-> Cardinality({c \in DOMAIN likes : likes[c].b}) ]

YearCount(row) == YearCountOf([c \in DOMAIN row |-> is_year_like(row[c])])

\* the wide branch of parse_sheet_to_long: the first of the leading rows
\* with enough year-like cells is the year row (counts: YearCount of the
\* leading rows)
WideDetectOf(all_rows, counts, ctx) ==
    LET stop == FirstTrue([i \in DOMAIN counts |->
                    counts[i].exc # "" \/ counts[i].n >= WideMinYears])
    IN  IF stop = 0 THEN NoFrame
        ELSE IF counts[stop].exc # "" THEN Raised(counts[stop].exc)
        ELSE parse_wide_year_columns(all_rows, stop, ctx)

WideDetect(all_rows, ctx) ==
    WideDetectOf(all_rows,
                 [i \in 1..Min(Len(all_rows), WideScan) |-> YearCount(all_rows[i])], ctx)

\* the long branch of parse_sheet_to_long from the first year row on
LongParse(all_rows, data_start, substance, ctx) ==
    LongFrom(all_rows, data_start,
             unique_headers(CleanHeaders(all_rows, HeaderRowIdx(all_rows, data_start))),
             substance, ctx)

\* the detection loop of parse_sheet_to_long (probes: is_year_like of the
\* first cell of every row) and the branch it leads to
DetectOf(all_rows, probes, substance, ctx) ==
    LET hit == FirstTrue([i \in DOMAIN probes |-> probes[i].exc # "" \/ probes[i].b])
    IN  IF Len(all_rows) < 3 THEN NoFrame
        ELSE IF hit = 0 THEN WideDetect(all_rows, ctx)
        ELSE IF probes[hit].exc # "" THEN Raised(probes[hit].exc)
        ELSE LongParse(all_rows, hit, substance, ctx)

\* parse_sheet_to_long(ws, report_id, sheet_name, topic, substance_map):
\* the records of the sheet (none: the None result), or the exception
\* that leaves it.  substance is substance_map[sheet_name], "" if none.
parse_sheet_to_long(all_rows, report_id, sheet_name, topic, substance) ==
    DetectOf(all_rows,
             [i \in DOMAIN all_rows |-> is_year_like(FirstCell(all_rows[i]))],
             substance,
             [ report |-> report_id, table_id |-> sheet_name,
               table_title |-> extract_table_title(all_rows), topic |-> topic ])

----------------------------------------------------------------------------
(* Floats in order (the finite ones by value, nan apart)                    *)

\* a < b for two floats that are not nan
FloatLess(a, b) ==
    LET sa == IF a.neg THEN 0 - 1 ELSE 1
        sb == IF b.neg THEN 0 - 1 ELSE 1
        e0 == Min(a.e, b.e)
    IN  CASE a.kind = "inf" -> a.neg /\ ~(b.kind = "inf" /\ b.neg)
          [] b.kind = "inf" -> ~b.neg
          [] OTHER -> sa * a.m * Pow10(a.e - e0) < sb * b.m * Pow10(b.e - e0)

\* min and max of a column as pandas takes them: nan is skipped, and is
\* the result when nothing else is there
FloatMin(S) ==
    LET T == {x \in S : x.kind # "nan"}
    IN  IF T = {} THEN NaN ELSE CHOOSE x \in T : \A y \in T : ~FloatLess(y, x)

FloatMax(S) ==
    LET T == {x \in S : x.kind # "nan"}
    IN  IF T = {} THEN NaN ELSE CHOOSE x \in T : \A y \in T : ~FloatLess(x, y)

SetMin(S) == CHOOSE x \in S : \A y \in S : x <= y
SetMax(S) == CHOOSE x \in S : \A y \in S : x >= y

----------------------------------------------------------------------------
(* The registry and the workbooks                                           *)

\* a long sheet: title, empty row, header row, two year rows
SheetLong ==
    << <<Text(<<"T","a","b","e","l","l"," ","1","."," ","A","l","k","o","h","o","l">>), EmptyCell, EmptyCell>>,
       <<EmptyCell, EmptyCell, EmptyCell>>,
       <<Text(<<"A_ring","r">>), Text(<<"M">>), Text(<<"K">>)>>,
       <<Text(<<"2","0","1","9">>), Number(<<"1","2",".","5">>), Text(<<".">>)>>,
       <<Text(<<"2","0","2","0","a">>), Number(<<"1","3">>), Number(<<"7">>)>> >>

\* fewer than three rows
SheetShort ==
    << <<Text(<<"A_ring","r">>), Text(<<"M">>)>>,
       <<Text(<<"2","0","1","9">>), Number(<<"1">>)>> >>

\* a wide sheet with an indented child row and a source row, no title
SheetWide ==
    << <<EmptyCell, Text(<<"2","0","1","9">>), Text(<<"2","0","2","0">>), Text(<<"2","0","2","1">>)>>,
       <<Text(<<"V","i","n">>), Number(<<"1">>), Number(<<"2">>), Number(<<"3">>)>>,
       <<Text(<<" ","R","o_uml","t","t">>), Number(<<"4">>), Text(<<".">>), Number(<<"6">>)>>,
       <<Text(<<"K","a_uml","l","l","a",":"," ","C","A","N">>), EmptyCell, EmptyCell, EmptyCell>> >>

\* a first cell that is the text inf
SheetInf ==
    << <<Text(<<"A_ring","r">>), Text(<<"x">>)>>,
       <<Text(<<"i","n","f">>), Number(<<"1">>)>>,
       <<Text(<<"2","0","1","9">>), Number(<<"2">>)>> >>

\* a value cell that is the text nan
SheetNaN ==
    << <<Text(<<"A_ring","r">>), Text(<<"x">>)>>,
       <<Text(<<"2","0","1","9">>), Text(<<"n","a","n">>)>>,
       <<Text(<<"2","0","2","0">>), Number(<<"3">>)>> >>

\* a repeated row and a conflicting one
SheetDup ==
    << <<Text(<<"A_ring","r">>), Text(<<"x">>)>>,
       <<Text(<<"2","0","1","9">>), Number(<<"5">>)>>,
       <<Text(<<"2","0","1","9">>), Number(<<"5">>)>>,
       <<Text(<<"2","0","1","9">>), Number(<<"6">>)>> >>

\* a year with the text nan and with a number
SheetNaNDup ==
    << <<Text(<<"A_ring","r">>), Text(<<"x">>)>>,
       <<Text(<<"2","0","1","9">>), Text(<<"n","a","n">>)>>,
       <<Text(<<"2","0","1","9">>), Number(<<"3">>)>> >>

\* an empty row among the data rows
SheetEmptyRow ==
    << <<Text(<<"A_ring","r">>), Text(<<"x">>)>>,
       <<Text(<<"2","0","1","9">>), Number(<<"1">>)>>,
       <<>> >>

\* no year anywhere
SheetText ==
    << <<Text(<<"a">>), Text(<<"b">>)>>,
       <<Text(<<"c">>), Text(<<"d">>)>>,
       <<Text(<<"e">>), Text(<<"f">>)>> >>

Name1 == <<"1">>
Name2 == <<"2">>
NameToc == <<"I","n","n","e","h","a","l","l">>
NameTK == <<"T","K"," ","1">>
Hashish == <<"h","a","s","h","i","s","h">>
\* REPORTS, its first two entries (the one with a substance map and one
\* without); skip_sheets as far as the workbooks below have such names
Reports ==
    << [ id |-> "CAN-233", topic |-> "Drug prices",
         skip_sheets |-> {NameToc}, substance_map |-> (Name1 :> Hashish) ],
       [ id |-> "CAN-234", topic |-> "Smoking & snus habits",
         skip_sheets |-> {}, substance_map |-> <<>> ] >>

\* TK_PATTERN.match(sheet_name): ^TK\s*\d, case ignored
TKMatches(name) ==
    /\ Len(name) >= 3
    /\ Lower(SubSeq(name, 1, 2)) = <<"t", "k">>
    /\ LET rest == LStrip(SubSeq(name, 3, Len(name)))
       IN  rest # <<>> /\ IsDigit(Head(rest))

\* the sheets a workbook may hold
SheetSet ==
    { SheetLong, SheetShort, SheetWide, SheetInf, SheetNaN, SheetDup,
      SheetNaNDup, SheetEmptyRow, SheetText }

\* the sheet names a workbook may have, in order
Workbooks ==
    { <<>>, <<Name1>>, <<Name2>>, <<NameToc, Name1>>, <<NameTK, Name2>>, <<Name1, Name2>> }

\* the same for the runs that are followed through the rewrite of the
\* store, run after run
StoreSheetSet == { SheetLong, SheetShort, SheetInf, SheetNaN }
StoreWorkbooks == { <<Name1>>, <<NameToc, Name2>> }

\* the sheets one run lets through its name filters, and the runs of
\* ingest_all
MaxSheets == 2
MaxRuns == 2

----------------------------------------------------------------------------
(* The store                                                                *)

NoTable == [exists |-> FALSE, rows |-> <<>>]
Table(rows) == [exists |-> TRUE, rows |-> rows]

TableNames == {"timeseries", "catalog", "variables"}
InsightTables == {"insight_correlations", "insight_trend_breaks", "insight_movers"}
KoladaTables == {"kolada"}
AllTables == TableNames \cup InsightTables \cup KoladaTables

\* a key that leaves the value out
DedupKeyNoValue(x) == <<x.report, x.table_id, x.variable, x.year, x.year_label>>

DedupKey(x) == <<x.report, x.table_id, x.variable, x.year, x.year_label, x.value>>

\* pd.concat(all_frames, ignore_index=True)
RECURSIVE Concat(_)
Concat(frames) == IF frames = <<>> THEN <<>> ELSE Head(frames) \o Concat(Tail(frames))

\* drop_duplicates(subset=[report, table_id, variable, year, year_label,
\* value]): the first row of each key is kept
RECURSIVE DropDuplicatesFrom(_, _)
DropDuplicatesFrom(rows, keys) ==
    IF rows = <<>> THEN <<>>
    ELSE IF DedupKey(Head(rows)) \in keys THEN DropDuplicatesFrom(Tail(rows), keys)
    ELSE <<Head(rows)>> \o DropDuplicatesFrom(Tail(rows), keys \cup {DedupKey(Head(rows))})

drop_duplicates(rows) == DropDuplicatesFrom(rows, {})

\* the catalog: groupby(report, table_id, table_title, topic); a group
\* whose key holds a null (no title) is dropped by groupby
CatalogOf(rows) ==
    LET R == {x \in Range(rows) : x.table_title.some}
        keys == {<<x.report, x.table_id, x.table_title, x.topic>> : x \in R}
        grp(k) == {i \in DOMAIN rows :
                     <<rows[i].report, rows[i].table_id, rows[i].table_title,
                       rows[i].topic>> = k}
    IN  { [ report |-> k[1], table_id |-> k[2], table_title |-> k[3], topic |-> k[4],
            variables |-> Cardinality({rows[i].variable : i \in grp(k)}),
            year_min |-> SetMin({rows[i].year : i \in grp(k)}),
            year_max |-> SetMax({rows[i].year : i \in grp(k)}),
            records |-> Cardinality(grp(k)) ] : k \in keys }

\* the variables index: groupby(report, table_id, variable)
VariablesOf(rows) ==
    LET keys == {<<x.report, x.table_id, x.variable>> : x \in Range(rows)}
        grp(k) == {i \in DOMAIN rows :
                     <<rows[i].report, rows[i].table_id, rows[i].variable>> = k}
    IN  { [ report |-> k[1], table_id |-> k[2], variable |-> k[3],
            year_min |-> SetMin({rows[i].year : i \in grp(k)}),
            year_max |-> SetMax({rows[i].year : i \in grp(k)}),
            value_min |-> FloatMin({rows[i].value : i \in grp(k)}),
            value_max |-> FloatMax({rows[i].value : i \in grp(k)}),
            records |-> Cardinality(grp(k)) ] : k \in keys }

\* HAVING COUNT(DISTINCT value) > 0
ConflictsOfAnyValue(rows) ==
    LET key(x) == <<x.report, x.table_id, x.variable, x.year, x.year_label>>
    IN  { key(x) : x \in {y \in Range(rows) : y.value.kind # "nan"} }

\* the integrity query: the keys with more than one distinct value (a nan
\* reaches the table as NULL, which COUNT(DISTINCT value) does not count)
ConflictsOf(rows) ==
    LET key(x) == <<x.report, x.table_id, x.variable, x.year, x.year_label>>
    IN  { k \in {key(x) : x \in Range(rows)} :
            Cardinality({x.value : x \in {y \in Range(rows) :
                            key(y) = k /\ y.value.kind # "nan"}}) > 1 }

----------------------------------------------------------------------------
(* ingest_all, statement by statement                                       *)

NotCalled == [fn |-> "none"]

NoStats == [files |-> 0, sheets |-> 0, rows |-> 0, skipped |-> 0]

Snapshot(d) == [n \in TableNames |-> d[n]]

InitSystem ==
    /\ pc = "idle"
    /\ report_idx = 0
    /\ pending = <<>>
    /\ all_frames = <<>>
    /\ stats = NoStats
    /\ combined = <<>>
    /\ conflicts = {}
    /\ db = [n \in AllTables |-> NoTable]
    /\ runs = 0
    /\ last_read = [run |-> 0, tables |-> <<>>]
    /\ eligible = 0
    /\ prior = [n \in TableNames |-> NoTable]
    /\ ipc = "idle"
    /\ idf = <<>>
    /\ found = [correlations |-> {}, changes |-> {}, movers |-> {}]
    /\ iruns = 0
    /\ kpc = "idle"
    /\ kdf = <<>>
    /\ kruns = 0

\* a run starts: the process is started anew after the run before it ended
StartIngest ==
    /\ pc \in {"idle", "done", "zero_output", "crashed"}
    /\ ipc \in {"idle", "done", "failed"}
    /\ runs < MaxRuns
    /\ last_read' = [run |-> 0, tables |-> <<>>]
    /\ runs' = runs + 1
    /\ pc' = "reports"
    /\ report_idx' = 1
    /\ pending' = <<>>
    /\ all_frames' = <<>>
    /\ stats' = NoStats
    /\ combined' = <<>>
    /\ conflicts' = {}
    /\ eligible' = 0
    /\ prior' = Snapshot(db)
    /\ UNCHANGED db

\* a sheet name the loop passes over
SkippedName(info, sheet_name) ==
    sheet_name \in info.skip_sheets \/ TKMatches(sheet_name)

\* the sheets of names that the name filters let through
Eligible(info, names) ==
    Cardinality({i \in DOMAIN names : ~SkippedName(info, names[i])})

\* the head of the loop over REPORTS: the file is missing, or its workbook
\* is opened
OpenReport(workbooks) ==
    /\ pc = "reports" /\ report_idx <= Len(Reports)
    /\ \/ /\ report_idx' = report_idx + 1
          /\ UNCHANGED <<pc, pending, stats, eligible>>
       \/ \E names \in workbooks :
             /\ Eligible(Reports[report_idx], names) + eligible <= MaxSheets
             /\ eligible' = eligible + Eligible(Reports[report_idx], names)
             /\ stats' = [stats EXCEPT !.files = @ + 1]
             /\ IF names = <<>>
                THEN report_idx' = report_idx + 1 /\ UNCHANGED <<pc, pending>>
                ELSE pc' = "sheets" /\ pending' = names /\ UNCHANGED report_idx
    /\ UNCHANGED <<all_frames, combined, conflicts, db, runs, last_read, prior>>

\* after the last sheet the workbook is closed and the next report is due
AfterSheet ==
    /\ pending' = Tail(pending)
    /\ IF Tail(pending) = <<>>
       THEN pc' = "reports" /\ report_idx' = report_idx + 1
       ELSE UNCHANGED <<pc, report_idx>>

\* a sheet the name filters pass over
SkipByName ==
    /\ pc = "sheets"
    /\ SkippedName(Reports[report_idx], Head(pending))
    /\ AfterSheet
    /\ UNCHANGED <<all_frames, stats, combined, conflicts, db, runs, last_read, eligible, prior>>

\* the rest of one pass of the sheet loop, df being the result of
\* parse_sheet_to_long: an exception leaves ingest_all, a frame with rows
\* is kept, anything else counts as skipped
KeepFrame(df) ==
    /\ IF df.exc # ""
       THEN /\ pc' = "crashed"
            /\ UNCHANGED <<report_idx, pending, all_frames, stats>>
       ELSE /\ AfterSheet
            /\ IF Len(df.records) > 0
               THEN /\ all_frames' = Append(all_frames, df.records)
                    /\ stats' = [stats EXCEPT !.sheets = @ + 1,
                                              !.rows = @ + Len(df.records)]
               ELSE /\ stats' = [stats EXCEPT !.skipped = @ + 1]
                    /\ UNCHANGED all_frames

\* one pass of the loop over the sheets of the open workbook
ProcessSheet(sheets) ==
    /\ pc = "sheets"
    /\ ~SkippedName(Reports[report_idx], Head(pending))
    /\ \E ws \in sheets :
          KeepFrame(parse_sheet_to_long(ws, Reports[report_idx].id, Head(pending),
                                        Reports[report_idx].topic,
                                        IF Head(pending) \in DOMAIN Reports[report_idx].substance_map
                                        THEN Reports[report_idx].substance_map[Head(pending)]
                                        ELSE <<>>))
    /\ UNCHANGED <<combined, conflicts, db, runs, last_read, eligible, prior>>

\* after the loop: no frame at all ends the run before the store is opened
CheckFrames ==
    /\ pc = "reports" /\ report_idx > Len(Reports)
    /\ IF all_frames = <<>>
       THEN pc' = "zero_output" /\ UNCHANGED combined
       ELSE pc' = "drop_timeseries" /\ combined' = drop_duplicates(Concat(all_frames))
    /\ UNCHANGED <<report_idx, pending, all_frames, stats, conflicts, db, runs, last_read, eligible, prior>>

\* con.execute("DROP TABLE IF EXISTS <name>")
Drop(at, name, next) ==
    /\ pc = at
    /\ db' = [db EXCEPT ![name] = NoTable]
    /\ pc' = next
    /\ UNCHANGED <<report_idx, pending, all_frames, stats, combined, conflicts, runs, last_read,
                   eligible, prior>>

\* con.execute("CREATE TABLE <name> AS SELECT * FROM <frame>")
Create(at, name, rows, next) ==
    /\ pc = at
    /\ db' = [db EXCEPT ![name] = Table(rows)]
    /\ pc' = next
    /\ UNCHANGED <<report_idx, pending, all_frames, stats, combined, conflicts, runs, last_read,
                   eligible, prior>>

DropTimeseries == Drop("drop_timeseries", "timeseries", "create_timeseries")
CreateTimeseries == Create("create_timeseries", "timeseries", combined, "drop_catalog")
DropCatalog == Drop("drop_catalog", "catalog", "create_catalog")
CreateCatalog == Create("create_catalog", "catalog", CatalogOf(combined), "drop_variables")
DropVariables == Drop("drop_variables", "variables", "create_variables")
CreateVariables ==
    Create("create_variables", "variables", VariablesOf(combined), "integrity")

\* the integrity check and the counts, then con.close()
IntegrityCheck ==
    /\ pc = "integrity"
    /\ conflicts' = ConflictsOf(db.timeseries.rows)
    /\ pc' = "done"
    /\ UNCHANGED <<report_idx, pending, all_frames, stats, combined, db, runs, last_read, eligible, prior>>

\* app.py, query(sql): a reader's query of the three tables, answered from
\* the store as it stands
ReaderQuery ==
    /\ runs > 0
    /\ last_read' = [run |-> runs, tables |-> Snapshot(db)]
    /\ UNCHANGED <<pc, report_idx, pending, all_frames, stats, combined, conflicts, db, runs,
                   eligible, prior>>

----------------------------------------------------------------------------
(* insights.py: the three scanners                                          *)

MinOverlap == 10
MinYears == 10
Window == 5
MinHistory == 5
SplitMargin == 4

\* series_id: report | table_id | variable
SeriesId(x) == <<x.report, x.table_id, x.variable>>

SeriesIds(df) == {SeriesId(df[i]) : i \in DOMAIN df}

RECURSIVE SortSet(_)
SortSet(S) == IF S = {} THEN <<>> ELSE <<SetMin(S)>> \o SortSet(S \ {SetMin(S)})

RECURSIVE Sum(_)
Sum(v) == IF v = <<>> THEN 0 ELSE Head(v) + Sum(Tail(v))

Dot(a, b) == Sum([i \in DOMAIN a |-> a[i] * b[i]])

\* n * sum(v^2) - sum(v)^2, which is n^2 times the variance np.std squares;
\* np.std(v) < 1e-10 is taken as this being 0
VarN(v) == Len(v) * Dot(v, v) - Sum(v) * Sum(v)

RECURSIVE FracLess(_, _, _, _)
\* a/b < c/d for a, c >= 0 and b, d > 0, without the products a*d and c*b
FracLess(a, b, c, d) ==
    IF a \div b # c \div d THEN a \div b < c \div d
    ELSE IF c % d = 0 THEN FALSE
    ELSE IF a % b = 0 THEN TRUE
    ELSE FracLess(d, c % d, b, a % b)

AllFinite(vals) == \A i \in DOMAIN vals : vals[i].kind = "fin"

\* the decimals the values carry, and the values as integers in units of
\* 10^-k (the statistics below are ratios, the unit cancels)
Decimals(vals) == SetMax({0} \cup {0 - vals[i].e : i \in DOMAIN vals})

IntsAt(vals, k) ==
    [i \in DOMAIN vals |->
        (IF vals[i].neg THEN -1 ELSE 1) * vals[i].m * Pow10(vals[i].e + k)]

Ints(vals) == IntsAt(vals, Decimals(vals))

RowsOf(df, sid) == SelectSeq(df, LAMBDA x : SeriesId(x) = sid)

FirstOfYear(rows, y) == rows[FirstTrue([i \in DOMAIN rows |-> rows[i].year = y])]

\* the rows in year order, one per year
YearRows(rows, years) == [i \in DOMAIN years |-> FirstOfYear(rows, years[i])]

\* group.sort_values("year").drop_duplicates("year")
Series(df, sid) ==
    YearRows(RowsOf(df, sid), SortSet({x.year : x \in Range(RowsOf(df, sid))}))

ValuesOf(ts) == [i \in DOMAIN ts |-> ts[i].value]
YearsOf(ts) == [i \in DOMAIN ts |-> ts[i].year]

\* meta.loc[series_id]: the columns of the first row of the series
MetaOf(df, sid) ==
    [ series_id |-> sid, report |-> RowsOf(df, sid)[1].report,
      table_id |-> RowsOf(df, sid)[1].table_id,
      table_title |-> RowsOf(df, sid)[1].table_title,
      variable |-> RowsOf(df, sid)[1].variable ]

\* the sign of z_score whatever its size
ZDirectionAnySize(h, r) ==
    IF Len(h) * Sum(r) > Len(r) * Sum(h) THEN "rising" ELSE "falling"

\* find_biggest_movers: the sign of z_score when abs(z_score) > 2.0, for a
\* history h and a recent window r of finite values
ZDirection(h, r) ==
    IF (Len(h) * Sum(r) - Len(r) * Sum(h)) * (Len(h) * Sum(r) - Len(r) * Sum(h))
          > 4 * Len(r) * Len(r) * VarN(h)
    THEN IF Len(h) * Sum(r) > Len(r) * Sum(h) THEN "rising" ELSE "falling"
    ELSE ""

\* the same when the recent window holds nan or an infinity
InfDirection(r) ==
    IF \E i \in DOMAIN r : r[i].kind = "nan" THEN ""
    ELSE IF \A i \in DOMAIN r : r[i].kind = "inf" => r[i].neg THEN "falling"
    ELSE IF \A i \in DOMAIN r : r[i].kind = "inf" => ~r[i].neg THEN "rising"
    ELSE ""

\* the same without the test of np.std(historical)
MoverDirectionAnyHistory(vals) ==
    IF Len(vals) < Window + MinHistory THEN ""
    ELSE
    LET hist == SubSeq(vals, 1, Len(vals) - Window)
        recent == SubSeq(vals, Len(vals) - Window + 1, Len(vals))
        k == Decimals(vals)
    IN  IF ~AllFinite(hist) THEN ""
        ELSE IF AllFinite(recent) THEN ZDirection(IntsAt(hist, k), IntsAt(recent, k))
        ELSE InfDirection(recent)

\* the direction of the mover a series of values is, "" if it is none
MoverDirection(vals) ==
    IF Len(vals) < Window + MinHistory THEN ""
    ELSE
    LET hist == SubSeq(vals, 1, Len(vals) - Window)
        recent == SubSeq(vals, Len(vals) - Window + 1, Len(vals))
        k == Decimals(vals)
    IN  IF ~AllFinite(hist) THEN ""
        ELSE IF VarN(IntsAt(hist, k)) = 0 THEN ""
        ELSE IF AllFinite(recent) THEN ZDirection(IntsAt(hist, k), IntsAt(recent, k))
        ELSE InfDirection(recent)

MoverRow(meta, ts, direction) ==
    meta @@ [direction |-> direction, latest_year |-> SetMax(Range(YearsOf(ts)))]

\* find_biggest_movers(df, window=5), its rows (the statistics of a row
\* left out)
find_biggest_movers(df) ==
    { MoverRow(MetaOf(df, sid), Series(df, sid), MoverDirection(ValuesOf(Series(df, sid)))) :
        sid \in {s \in SeriesIds(df) : MoverDirection(ValuesOf(Series(df, s))) # ""} }

\* scipy's ttest_ind(before, after, equal_var=False): t^2 = num / den, up
\* when the mean after is the greater; valid unless both sides are constant
Welch(b, a, k) ==
    [ k |-> k,
      valid |-> ~(VarN(b) = 0 /\ VarN(a) = 0),
      num |-> (Len(a) * Sum(b) - Len(b) * Sum(a)) * (Len(a) * Sum(b) - Len(b) * Sum(a))
                 * (Len(b) - 1) * (Len(a) - 1),
      den |-> VarN(b) * Len(a) * Len(a) * (Len(a) - 1)
                 + VarN(a) * Len(b) * Len(b) * (Len(b) - 1),
      up |-> Len(b) * Sum(a) > Len(a) * Sum(b),
      sum_before |-> Sum(b), n_before |-> Len(b),
      sum_after |-> Sum(a), n_after |-> Len(a) ]

NoSplit ==
    [ k |-> 0, valid |-> FALSE, num |-> 0, den |-> 1, up |-> FALSE,
      sum_before |-> 0, n_before |-> 1, sum_after |-> 0, n_after |-> 1 ]

\* if abs(t_stat) >= abs(best_t)
BetterOrEqual(best, w) ==
    IF w.valid /\ ~FracLess(w.num, w.den, best.num, best.den) THEN w ELSE best

\* if abs(t_stat) > abs(best_t)
Better(best, w) ==
    IF w.valid /\ FracLess(best.num, best.den, w.num, w.den) THEN w ELSE best

RECURSIVE BestSplit(_, _, _)
\* for split_idx in range(4, len(values) - 4), from split_idx = k on
BestSplit(v, k, best) ==
    IF k >= Len(v) - SplitMargin THEN best
    ELSE BestSplit(v, k + 1,
                   Better(best, Welch(SubSeq(v, 1, k), SubSeq(v, k + 1, Len(v)), k)))

Abs(x) == IF x < 0 THEN -x ELSE x

RECURSIVE GCD(_, _)
GCD(a, b) == IF b = 0 THEN a ELSE GCD(b, a % b)

RECURSIVE GCDOf(_)
GCDOf(v) == IF v = <<>> THEN 0 ELSE GCD(Abs(Head(v)), GCDOf(Tail(v)))

\* the values in units of their greatest common divisor (t_stat and
\* change_pct are ratios, the unit cancels)
Reduced(v) == IF GCDOf(v) = 0 THEN v ELSE [i \in DOMAIN v |-> v[i] \div GCDOf(v)]

\* round(p / q, 1) in tenths, for q > 0: the nearest tenth, a half to the
\* even one
RoundTenths(p, q) ==
    LET lo == (10 * Abs(p)) \div q
        rem == (10 * Abs(p)) % q
        up == 2 * rem > q \/ (2 * rem = q /\ lo % 2 = 1)
    IN  (IF p < 0 THEN -1 ELSE 1) * (IF up THEN lo + 1 ELSE lo)

\* change_pct in tenths of a percent: (after - before) / abs(before) * 100
\* if best_before_mean != 0 else 0, rounded to one decimal
ChangePct(split) ==
    IF split.sum_before = 0 THEN 0
    ELSE RoundTenths(100 * (split.sum_after * split.n_before
                               - split.sum_before * split.n_after),
                     split.n_after * Abs(split.sum_before))

\* the split a series of values breaks at, NoSplit if it has no break:
\* the best split with abs(best_t) > 3.0
TrendSplit(vals) ==
    IF Len(vals) < MinYears \/ ~AllFinite(vals) THEN NoSplit
    ELSE IF VarN(Ints(vals)) = 0 THEN NoSplit
    ELSE LET best == BestSplit(Reduced(Ints(vals)), SplitMargin, NoSplit)
         IN  IF best.num > 9 * best.den THEN best ELSE NoSplit

TrendRow(meta, ts, split) ==
    meta @@ [ break_year |-> ts[split.k + 1].year,
              change_pct |-> ChangePct(split),
              direction |-> IF split.up THEN "increase" ELSE "decrease",
              year_range |-> <<SetMin(Range(YearsOf(ts))), SetMax(Range(YearsOf(ts)))>> ]

\* find_trend_changes(df, min_years=10), its rows (the statistics of a row
\* left out)
find_trend_changes(df) ==
    { TrendRow(MetaOf(df, sid), Series(df, sid), TrendSplit(ValuesOf(Series(df, sid)))) :
        sid \in {s \in SeriesIds(df) : TrendSplit(ValuesOf(Series(df, s))).k # 0} }

\* the rows the pivot takes its values from: aggfunc="first" passes over nan
NotNaN(df) == SelectSeq(df, LAMBDA x : x.value.kind # "nan")

\* the position of a report in REPORTS, whose ids are in ascending order
ReportIndex(id) == CHOOSE i \in DOMAIN Reports : Reports[i].id = id

\* the rows of a series at the given years
AtYears(ts, years) == SelectSeq(ts, LAMBDA x : x.year \in years)

\* the sign of pearsonr when abs(r) > 0.7 (for ten values or more p < 0.05
\* follows from it), "" otherwise: r^2 = cov^2 / (var x * var y)
CorrDirection(x, y) ==
    IF VarN(x) = 0 \/ VarN(y) = 0 THEN ""
    ELSE IF FracLess(49, 100,
                     (Len(x) * Dot(x, y) - Sum(x) * Sum(y))
                        * (Len(x) * Dot(x, y) - Sum(x) * Sum(y)),
                     VarN(x) * VarN(y))
         THEN IF Len(x) * Dot(x, y) > Sum(x) * Sum(y) THEN "positive" ELSE "negative"
         ELSE ""

\* the direction of the correlation of two pivot columns over their common
\* years, "" if they give no result
PairDirection(s1, s2, common) ==
    IF Cardinality(common) < MinOverlap THEN ""
    ELSE IF ~AllFinite(ValuesOf(AtYears(s1, common)))
            \/ ~AllFinite(ValuesOf(AtYears(s2, common))) THEN ""
    ELSE CorrDirection(Reduced(Ints(ValuesOf(AtYears(s1, common)))),
                       Reduced(Ints(ValuesOf(AtYears(s2, common)))))

PairOf(p, c1, c2) ==
    PairDirection(Series(p, c1), Series(p, c2),
                  Range(YearsOf(Series(p, c1))) \cap Range(YearsOf(Series(p, c2))))

CorrRow(m1, m2, common, direction) ==
    [ series_1 |-> m1.series_id, report_1 |-> m1.report, table_1 |-> m1.table_id,
      title_1 |-> m1.table_title, variable_1 |-> m1.variable,
      series_2 |-> m2.series_id, report_2 |-> m2.report, table_2 |-> m2.table_id,
      title_2 |-> m2.table_title, variable_2 |-> m2.variable,
      overlap_years |-> Cardinality(common),
      year_min |-> SetMin(common), year_max |-> SetMax(common),
      direction |-> direction ]

\* every pair of two columns with enough values each
AllPairs(p) ==
    { c \in SeriesIds(p) \X SeriesIds(p) :
        /\ Len(Series(p, c[1])) >= MinOverlap
        /\ Len(Series(p, c[2])) >= MinOverlap
        /\ c[1] # c[2] }

\* the pairs of columns compared: enough values each, the first of a report
\* that comes before the report of the second
CrossPairs(p) ==
    { c \in SeriesIds(p) \X SeriesIds(p) :
        /\ Len(Series(p, c[1])) >= MinOverlap
        /\ Len(Series(p, c[2])) >= MinOverlap
        /\ ReportIndex(c[1][1]) < ReportIndex(c[2][1]) }

\* find_cross_correlations(df, min_overlap=10, top_n=50), its rows (the
\* statistics of a row left out; head(top_n) keeps every row of up to 50)
CorrelationsOf(df, p) ==
    { CorrRow(MetaOf(df, c[1]), MetaOf(df, c[2]),
              Range(YearsOf(Series(p, c[1]))) \cap Range(YearsOf(Series(p, c[2]))),
              PairOf(p, c[1], c[2])) :
        c \in {d \in CrossPairs(p) : PairOf(p, d[1], d[2]) # ""} }

find_cross_correlations(df) == CorrelationsOf(df, NotNaN(df))

----------------------------------------------------------------------------
(* run_all_insights, statement by statement                                 *)

NoResults == [correlations |-> {}, changes |-> {}, movers |-> {}]

MaxInsightRuns == 2

\* load_all_series(): the query fails when there is no timeseries table
LoadAllSeries ==
    /\ ipc \in {"idle", "done", "failed"}
    /\ pc \in {"idle", "done", "zero_output", "crashed"}
    /\ iruns < MaxInsightRuns
    /\ iruns' = iruns + 1
    /\ found' = NoResults
    /\ IF db.timeseries.exists
       THEN ipc' = "loaded" /\ idf' = db.timeseries.rows
       ELSE ipc' = "failed" /\ idf' = <<>>
    /\ UNCHANGED <<db, ingvars>>

\* the three scanners, one after the other
Scan ==
    /\ ipc = "loaded"
    /\ found' = [ correlations |-> find_cross_correlations(idf),
                  changes |-> find_trend_changes(idf),
                  movers |-> find_biggest_movers(idf) ]
    /\ ipc' = "save_correlations"
    /\ UNCHANGED <<db, idf, iruns, ingvars>>

\* if len(results) > 0: not taken
SkipSave(at, results, next) ==
    /\ ipc = at
    /\ results = {}
    /\ ipc' = next
    /\ UNCHANGED <<db, idf, found, iruns, ingvars>>

\* if len(results) > 0: con.execute("DROP TABLE IF EXISTS <name>")
DropInsight(at, name, results, next) ==
    /\ ipc = at
    /\ results # {}
    /\ db' = [db EXCEPT ![name] = NoTable]
    /\ ipc' = next
    /\ UNCHANGED <<idf, found, iruns, ingvars>>

\* con.execute("CREATE TABLE <name> AS SELECT * FROM <results>")
CreateInsight(at, name, results, next) ==
    /\ ipc = at
    /\ db' = [db EXCEPT ![name] = Table(results)]
    /\ ipc' = next
    /\ UNCHANGED <<idf, found, iruns, ingvars>>

SaveCorrelations ==
    \/ SkipSave("save_correlations", found.correlations, "save_trend_breaks")
    \/ DropInsight("save_correlations", "insight_correlations", found.correlations,
                   "create_correlations")
    \/ CreateInsight("create_correlations", "insight_correlations", found.correlations,
                     "save_trend_breaks")

SaveTrendBreaks ==
    \/ SkipSave("save_trend_breaks", found.changes, "save_movers")
    \/ DropInsight("save_trend_breaks", "insight_trend_breaks", found.changes,
                   "create_trend_breaks")
    \/ CreateInsight("create_trend_breaks", "insight_trend_breaks", found.changes,
                     "save_movers")

SaveMovers ==
    \/ SkipSave("save_movers", found.movers, "done")
    \/ DropInsight("save_movers", "insight_movers", found.movers, "create_movers")
    \/ CreateInsight("create_movers", "insight_movers", found.movers, "done")

Init == arg = <<>> /\ ret = NotCalled /\ InitSystem

WriteStore ==
    \/ DropTimeseries \/ CreateTimeseries
    \/ DropCatalog \/ CreateCatalog
    \/ DropVariables \/ CreateVariables

\* the programs around the store: ingest_all run after run, the readers
Next ==
    \/ (StartIngest /\ UNCHANGED <<fnvars, insvars, kolvars>>)
    \/ (OpenReport(StoreWorkbooks) /\ UNCHANGED <<fnvars, insvars, kolvars>>)
    \/ (SkipByName /\ UNCHANGED <<fnvars, insvars, kolvars>>)
    \/ (ProcessSheet(StoreSheetSet) /\ UNCHANGED <<fnvars, insvars, kolvars>>)
    \/ (CheckFrames /\ UNCHANGED <<fnvars, insvars, kolvars>>)
    \/ (WriteStore /\ UNCHANGED <<fnvars, insvars, kolvars>>)
    \/ (IntegrityCheck /\ UNCHANGED <<fnvars, insvars, kolvars>>)
    \/ (ReaderQuery /\ UNCHANGED <<fnvars, insvars, kolvars>>)

Spec == Init /\ [][Next]_vars

\* one run of ingest_all over every kind of workbook and sheet
InitIngest == Init

StartOnce == runs = 0 /\ StartIngest

NextIngest ==
    \/ (StartOnce /\ UNCHANGED <<fnvars, insvars, kolvars>>)
    \/ (OpenReport(Workbooks) /\ UNCHANGED <<fnvars, insvars, kolvars>>)
    \/ (SkipByName /\ UNCHANGED <<fnvars, insvars, kolvars>>)
    \/ (ProcessSheet(SheetSet) /\ UNCHANGED <<fnvars, insvars, kolvars>>)
    \/ (CheckFrames /\ UNCHANGED <<fnvars, insvars, kolvars>>)
    \/ (WriteStore /\ UNCHANGED <<fnvars, insvars, kolvars>>)
    \/ (IntegrityCheck /\ UNCHANGED <<fnvars, insvars, kolvars>>)

SpecIngest == InitIngest /\ [][NextIngest]_vars

\* the sheets of the runs followed through run_all_insights: a header
\* row, then one row per year from SeriesStart on with one value
SeriesStart == 2010
SeriesAlt == <<1, 2, 1, 2, 1, 2, 1, 2, 1, 2>>
SeriesStep == <<1, 2, 1, 2, 1, 9, 8, 9, 8, 9>>
SeriesBrief == <<1, 9, 1>>

SeriesSheet(vals) ==
    << <<Text(<<"A_ring", "r">>), Text(<<"x">>)>> >>
    \o [i \in DOMAIN vals |->
           <<Number(StrOfInt(SeriesStart + i - 1)), Number(StrOfInt(vals[i]))>>]

SeriesSheetSet == {SeriesSheet(SeriesAlt), SeriesSheet(SeriesStep), SeriesSheet(SeriesBrief)}

SaveInsights == SaveCorrelations \/ SaveTrendBreaks \/ SaveMovers

\* ingest_all and run_all_insights, one after the other, run after run
NextInsights ==
    \/ (StartIngest /\ UNCHANGED <<fnvars, insvars, kolvars>>)
    \/ (OpenReport(StoreWorkbooks) /\ UNCHANGED <<fnvars, insvars, kolvars>>)
    \/ (SkipByName /\ UNCHANGED <<fnvars, insvars, kolvars>>)
    \/ (ProcessSheet(SeriesSheetSet) /\ UNCHANGED <<fnvars, insvars, kolvars>>)
    \/ (CheckFrames /\ UNCHANGED <<fnvars, insvars, kolvars>>)
    \/ (WriteStore /\ UNCHANGED <<fnvars, insvars, kolvars>>)
    \/ (IntegrityCheck /\ UNCHANGED <<fnvars, insvars, kolvars>>)
    \/ (LoadAllSeries /\ UNCHANGED <<fnvars, kolvars>>)
    \/ (Scan /\ UNCHANGED <<fnvars, kolvars>>)
    \/ (SaveInsights /\ UNCHANGED <<fnvars, kolvars>>)

SpecInsights == Init /\ [][NextInsights]_vars

----------------------------------------------------------------------------
(* fetch_and_store_kolada and the assistant, and all programs together      *)

MaxKoladaRuns == 1

KoladaRow(kpi_id, kpi_title, year, value) ==
    [ kpi_id |-> kpi_id, municipality_id |-> "0180", year |-> year, gender |-> "T",
      value |-> value, kpi_title |-> kpi_title, municipality_name |-> "Stockholm" ]

\* what fetch_all_relevant_kpis may return: nothing, or rows of some KPIs
KoladaFrames ==
    { <<>>,
      <<KoladaRow("N07544", "Drug offenses per 100,000 inhabitants", 2015, 1),
        KoladaRow("N02280", "Unemployment 20-64 (%)", 2016, 2)>> }

KoladaAtRest == kpc \in {"idle", "done", "no_data"}

\* df = fetch_all_relevant_kpis(); if len(df) == 0: return
FetchKolada ==
    /\ KoladaAtRest
    /\ pc \in {"idle", "done", "zero_output", "crashed"}
    /\ ipc \in {"idle", "done", "failed"}
    /\ kruns < MaxKoladaRuns
    /\ kruns' = kruns + 1
    /\ \E df \in KoladaFrames :
          /\ kdf' = df
          /\ kpc' = IF Len(df) = 0 THEN "no_data" ELSE "drop_kolada"
    /\ UNCHANGED <<db, ingvars, insvars>>

\* con.execute("DROP TABLE IF EXISTS kolada")
DropKolada ==
    /\ kpc = "drop_kolada"
    /\ db' = [db EXCEPT !["kolada"] = NoTable]
    /\ kpc' = "create_kolada"
    /\ UNCHANGED <<kdf, kruns, ingvars, insvars>>

\* con.execute("CREATE TABLE kolada AS SELECT * FROM df"), the count and
\* con.close()
CreateKolada ==
    /\ kpc = "create_kolada"
    /\ db' = [db EXCEPT !["kolada"] = Table(kdf)]
    /\ kpc' = "done"
    /\ UNCHANGED <<kdf, kruns, ingvars, insvars>>

fetch_and_store_kolada == FetchKolada \/ DropKolada \/ CreateKolada

\* the statements the assistant's generated SQL may be
ReaderStatements == {"SELECT", "DROP TABLE IF EXISTS", "CREATE TABLE"}

\* a statement on a table, carried out
Apply(d, verb, name) ==
    IF verb = "SELECT"
    THEN [db |-> d, error |-> ~d[name].exists,
          result |-> IF d[name].exists THEN name :> d[name] ELSE <<>>]
    ELSE IF verb = "CREATE TABLE"
    THEN [db |-> IF d[name].exists THEN d ELSE [d EXCEPT ![name] = Table(<<>>)],
          error |-> d[name].exists, result |-> <<>>]
    ELSE [db |-> [d EXCEPT ![name] = NoTable], error |-> FALSE, result |-> <<>>]

\* con.execute(sql) on a connection that lets every statement through
ExecuteWritable(d, read_only, verb, name) == Apply(d, verb, name)

\* con.execute(sql) on a connection opened with read_only: a statement that
\* writes raises
Execute(d, read_only, verb, name) ==
    IF read_only /\ verb # "SELECT"
    THEN [db |-> d, error |-> TRUE, result |-> <<>>]
    ELSE Apply(d, verb, name)

\* chat_engine.py, ask_data(): duckdb.connect(DB_PATH, read_only=True) and
\* con.execute(sql) of the SQL the language model wrote; the answer goes to
\* the user
AssistantQuery ==
    /\ \E verb \in ReaderStatements, name \in AllTables :
          db' = Execute(db, TRUE, verb, name).db
    /\ UNCHANGED ingvars

\* app.py, query(sql) on the connection of get_db(), opened with
\* read_only=True: the pages select from the tables
UIQuery ==
    /\ \E name \in AllTables : db' = Execute(db, TRUE, "SELECT", name).db
    /\ UNCHANGED ingvars

\* the workbooks and sheets of the runs followed here
ProgramWorkbooks == {<<NameToc, Name1>>}
ProgramSheetSet == {SeriesSheet(SeriesStep)}

\* the three programs and the readers on one store
NextPrograms ==
    \/ (StartIngest /\ KoladaAtRest /\ UNCHANGED <<fnvars, insvars, kolvars>>)
    \/ (OpenReport(ProgramWorkbooks) /\ UNCHANGED <<fnvars, insvars, kolvars>>)
    \/ (SkipByName /\ UNCHANGED <<fnvars, insvars, kolvars>>)
    \/ (ProcessSheet(ProgramSheetSet) /\ UNCHANGED <<fnvars, insvars, kolvars>>)
    \/ (CheckFrames /\ UNCHANGED <<fnvars, insvars, kolvars>>)
    \/ (WriteStore /\ UNCHANGED <<fnvars, insvars, kolvars>>)
    \/ (IntegrityCheck /\ UNCHANGED <<fnvars, insvars, kolvars>>)
    \/ (LoadAllSeries /\ KoladaAtRest /\ UNCHANGED <<fnvars, kolvars>>)
    \/ (Scan /\ UNCHANGED <<fnvars, kolvars>>)
    \/ (SaveInsights /\ UNCHANGED <<fnvars, kolvars>>)
    \/ (fetch_and_store_kolada /\ UNCHANGED fnvars)
    \/ (UIQuery /\ UNCHANGED <<fnvars, insvars, kolvars>>)
    \/ (AssistantQuery /\ UNCHANGED <<fnvars, insvars, kolvars>>)

SpecPrograms == Init /\ [][NextPrograms]_vars

----------------------------------------------------------------------------
(* Calls of the cell-level functions on generated arguments                 *)

\* the years tried lie up to YearMargin outside the accepted range
YearMargin == 2
FarYears == {1700, 2050}
YearsTried == ((YearMin - YearMargin)..(YearMax + YearMargin)) \cup FarYears
SuffixLetters == {"a", "B", "e"}

YearArg(cell, y, form) == [cell |-> cell, y |-> y, form |-> form]

YearArgs ==
    {YearArg(Text(StrOfInt(y)), y, "plain") : y \in YearsTried}
    \cup {YearArg(Text(StrOfInt(y) \o <<c>>), y, "suffix") :
              y \in YearsTried, c \in SuffixLetters}
    \cup {YearArg(Text(<<" ">> \o StrOfInt(y) \o <<"nbsp">>), y, "padded") : y \in YearsTried}
    \cup {YearArg(Number(StrOfInt(y)), y, "int") : y \in YearsTried}
    \cup {YearArg(Number(StrOfInt(y) \o <<".", d>>), y, "float") :
              y \in YearsTried, d \in {"0", "7"}}
    \cup {YearArg(EmptyCell, 0, "none")}
    \cup {YearArg(c, 0, "other") :
              c \in { Text(<<"i","n","f">>), Number(<<"i","n","f">>),
                      Text(<<"-","I","n","f","i","n","i","t","y">>),
                      Text(<<"1","e","9","9","9">>), Number(<<"n","a","n">>),
                      Text(<<"n","a","n">>), Text(<<"2",".","0","1","9","e","3">>),
                      Text(<<"1","_","9","9","9">>), Text(<<"2","0","1","9","a","b">>),
                      Text(<<"a","b","c">>), Text(<<>>), Text(<<"2","0","1">>),
                      Number(<<"1","e","+","2","0">>), Text(<<"-","2","0","1","9">>) }}

InitYear == arg \in YearArgs /\ ret = NotCalled /\ InitSystem

CallParseYearValue ==
    /\ ret = NotCalled
    /\ ret' = [fn |-> "parse_year_value", r |-> parse_year_value(arg.cell)]
    /\ UNCHANGED arg
    /\ UNCHANGED sysvars

CallIsYearLike ==
    /\ ret = NotCalled
    /\ ret' = [fn |-> "is_year_like", r |-> is_year_like(arg.cell)]
    /\ UNCHANGED arg
    /\ UNCHANGED sysvars

NextYear == CallParseYearValue \/ CallIsYearLike

SpecYear == InitYear /\ [][NextYear]_vars

\* the arguments of clean_numeric: the number n / 10^k written with its
\* integer digits in groups of three set apart by sep
MaxNum == 12
MaxDecimals == 2
NumSamples == {125, 1234, 20195, 1000000}
NumsTried == (0..MaxNum) \cup NumSamples
Separators == {<<>>, <<" ">>, <<"nbsp">>}

RECURSIVE Grouped(_, _)
Grouped(d, sep) ==
    IF Len(d) <= 3 THEN d
    ELSE Grouped(SubSeq(d, 1, Len(d) - 3), sep) \o sep \o SubSeq(d, Len(d) - 2, Len(d))

RECURSIVE ZeroPad(_, _)
ZeroPad(d, n) == IF Len(d) >= n THEN d ELSE ZeroPad(<<"0">> \o d, n)

FormatNum(neg, n, k, sep) ==
    LET d == ZeroPad(StrOfNat(n), k + 1)
        ip == SubSeq(d, 1, Len(d) - k)
        fp == SubSeq(d, Len(d) - k + 1, Len(d))
    IN  (IF neg THEN <<"-">> ELSE <<>>) \o Grouped(ip, sep)
        \o (IF k = 0 THEN <<>> ELSE <<".">> \o fp)

\* the tokens the specification lists as missing
ListedMissing ==
    { <<".">>, <<".", ".">>, <<"ndash">>, <<"-">>, <<"hellip">>, <<>>, <<"*">>,
      <<"n","o","n","e">> }

\* texts that are no number in any reading
JunkTokens ==
    { <<"a","b","c">>, <<"1","2","a">>, <<"1",",","5">>, <<"1",".","2",".","3">>,
      <<"-","-">>, <<"+">>, <<"e","5">>, <<"1","e">>, <<"1","_","_","0">>,
      <<"_","1">>, <<"0","x","1","0">>, <<"ndash"," ","ndash">>, <<"."," ",".">>,
      <<"1","tab","2">>, <<"N","O","N","E">>, <<"<","5">>, <<"1","2","%">> }

\* float literals that are no finite number
NonFiniteTokens ==
    { <<"n","a","n">>, <<"N","a","N">>, <<"i","n","f">>, <<"-","i","n","f">>,
      <<"I","n","f","i","n","i","t","y">>, <<"1","e","9","9","9">> }

NumArg(cell, neg, n, k, form) == [cell |-> cell, neg |-> neg, n |-> n, k |-> k, form |-> form]

NumArgs ==
    {NumArg(Text(FormatNum(neg, n, k, sep)), neg, n, k, "number") :
         neg \in BOOLEAN, n \in NumsTried, k \in 0..MaxDecimals, sep \in Separators}
    \cup {NumArg(Number(FormatNum(neg, n, k, <<>>)), neg, n, k, "number") :
         neg \in BOOLEAN, n \in NumsTried, k \in 0..MaxDecimals}
    \cup {NumArg(Text(pad \o t \o pad), FALSE, 0, 0, "missing") :
         t \in ListedMissing, pad \in {<<>>, <<" ">>}}
    \cup {NumArg(Text(t), FALSE, 0, 0, "junk") : t \in JunkTokens}
    \cup {NumArg(Text(t), FALSE, 0, 0, "nonfinite") : t \in NonFiniteTokens}
    \cup {NumArg(EmptyCell, FALSE, 0, 0, "none")}

InitNum == arg \in NumArgs /\ ret = NotCalled /\ InitSystem

CallCleanNumeric ==
    /\ ret = NotCalled
    /\ ret' = [fn |-> "clean_numeric", r |-> clean_numeric(arg.cell)]
    /\ UNCHANGED arg
    /\ UNCHANGED sysvars

NextNum == CallCleanNumeric

SpecNum == InitNum /\ [][NextNum]_vars

\* header rows of up to MaxHeaders cells
MaxHeaders == 4
HeaderCells ==
    { Text(<<"a">>), Text(<<"A", " ">>), Text(<<"b">>), Text(<<"a", "_", "1">>), EmptyCell }

RECURSIVE SeqsUpTo(_, _)
\* the sequences over S of length at most n
SeqsUpTo(S, n) ==
    IF n = 0 THEN {<<>>}
    ELSE LET shorter == SeqsUpTo(S, n - 1)
         IN  shorter \cup {Append(q, x) : q \in shorter, x \in S}

InitHdr ==
    /\ \E raw \in SeqsUpTo(HeaderCells, MaxHeaders) :
          arg = [raw |-> raw, headers |-> [i \in DOMAIN raw |-> clean_column_name(raw[i])]]
    /\ ret = NotCalled
    /\ InitSystem

CallUniqueHeaders ==
    /\ ret = NotCalled
    /\ ret' = [fn |-> "unique_headers", r |-> unique_headers(arg.headers)]
    /\ UNCHANGED arg
    /\ UNCHANGED sysvars

NextHdr == CallUniqueHeaders

SpecHdr == InitHdr /\ [][NextHdr]_vars

\* wide sheets: a row of years, then up to MaxWideRows rows, each a label
\* and one value per year; the values of row i are 10 * i + the column
WideYears == <<2019, 2020, 2021>>
MaxWideRows == 3
MinWideRows == 2

WideLabels ==
    { Text(<<"V","i","n">>), Text(<<" ","R","o_uml","t","t">>),
      Text(<<"S","p","r","i","t"," ","4","0","%">>),
      Text(<<"K","a_uml","l","l","a",":"," ","C","A","N">>),
      Text(<<"O_uml","l"," ">>), EmptyCell }

WideValue(i, c) == 10 * i + c

WideSheet(labels) ==
    << <<EmptyCell>> \o [c \in DOMAIN WideYears |-> Text(StrOfInt(WideYears[c]))] >>
    \o [i \in DOMAIN labels |->
           <<labels[i]>> \o [c \in DOMAIN WideYears |-> Number(StrOfInt(WideValue(i, c)))]]

InitWide ==
    /\ \E labels \in SeqsUpTo(WideLabels, MaxWideRows) :
          /\ Len(labels) >= MinWideRows
          /\ arg = [labels |-> labels, rows |-> WideSheet(labels)]
    /\ ret = NotCalled
    /\ InitSystem

CallParseSheet ==
    /\ ret = NotCalled
    /\ ret' = [fn |-> "parse_sheet_to_long",
               r |-> parse_sheet_to_long(arg.rows, "CAN-236", Name1, "Alcohol", <<>>)]
    /\ UNCHANGED arg
    /\ UNCHANGED sysvars

NextWide == CallParseSheet

SpecWide == InitWide /\ [][NextWide]_vars

----------------------------------------------------------------------------
(* parse_sheet_to_long on sheets of generated shapes                        *)

\* rows before the table, data rows and empty rows after it
MaxLead == 9
MaxDataRows == 3
MaxTrail == 1

BlankRow == <<EmptyCell, EmptyCell>>
NoteRow == <<Text(<<"n","o","t","e">>), EmptyCell>>

Repeat(row, n) == [i \in 1..n |-> row]

\* a table with the years in the first column: a header row or none, an
\* empty row under it or none, then n year rows
LongTable(header, gap, n) ==
    (IF header THEN << <<Text(<<"A_ring","r">>), Text(<<"x">>)>> >> ELSE <<>>)
    \o (IF gap THEN <<BlankRow>> ELSE <<>>)
    \o [i \in 1..n |-> <<Number(StrOfInt(WideYears[1] + i - 1)), Number(StrOfInt(i))>>]

\* a table with the years in the first row and n labelled rows
WideTable(n) == WideSheet([i \in 1..n |-> Text(<<"V","i","n">> \o StrOfInt(i))])

ShapeArg(kind, table, lead_row, lead, trail) ==
    [ kind |-> kind, lead |-> lead,
      rows |-> Repeat(lead_row, lead) \o table \o Repeat(BlankRow, trail) ]

InitShape ==
    /\ \E lead \in 0..MaxLead, lead_row \in {BlankRow, NoteRow}, trail \in 0..MaxTrail,
          n \in 1..MaxDataRows :
          \/ \E header, gap \in BOOLEAN :
                arg = ShapeArg("long", LongTable(header, gap, n), lead_row, lead, trail)
          \/ n > 1 /\ arg = ShapeArg("wide", WideTable(n), lead_row, lead, trail)
    /\ ret = NotCalled
    /\ InitSystem

NextShape == CallParseSheet

SpecShape == InitShape /\ [][NextShape]_vars

----------------------------------------------------------------------------
(* Calls of the three scanners on generated series                          *)

\* ten years at 0 and ten at 100
StepSeries ==
    <<0, 0, 0, 0, 0, 0, 0, 0, 0, 0, 100, 100, 100, 100, 100, 100, 100, 100, 100, 100>>
\* a history at 10, constant or not, and a window at 50
MoverFlat == <<10, 10, 10, 10, 10, 50, 50, 50, 50, 50>>
MoverNoisy == <<10, 11, 10, 11, 10, 50, 50, 50, 50, 50>>
\* a history near 50 and a window at 10
MoverDrop == <<50, 51, 50, 51, 50, 10, 10, 10, 10, 10>>
SeriesFlat == <<7, 7, 7, 7, 7, 7, 7, 7, 7, 7>>
SeriesNine == <<1, 2, 1, 2, 1, 2, 1, 2, 1>>
\* a step after the sixth of ten points
SeriesLate == <<0, 1, 0, 1, 0, 1, 10, 11, 10, 11>>
\* the split after the fourth point has t = -3.0 and is the strongest
SeriesFloor == <<0, 0, 0, 0, 1, 1, 0, 1, 3, 3>>

ScanShapes ==
    {StepSeries, MoverFlat, MoverNoisy, MoverDrop, SeriesFlat, SeriesNine, SeriesLate, SeriesFloor,
     SeriesAlt, SeriesStep}

\* the second series starts with the first or one year later
MaxOffset == 1

\* the rows of timeseries one series makes: a value per year from start on
SeriesRecords(report, table_id, vals, start) ==
    [i \in DOMAIN vals |->
        Record(start + i - 1, StrOfInt(start + i - 1), <<"x">>, Fin(FALSE, vals[i], 0),
               [ report |-> report.id, table_id |-> table_id,
                 table_title |-> NoTitle, topic |-> report.topic ])]

NoSeries == [report |-> "", vals |-> <<>>, start |-> 0]

InitScan ==
    /\ \E r1 \in DOMAIN Reports, v1 \in ScanShapes :
          \/ arg = [ first |-> [report |-> Reports[r1].id, vals |-> v1, start |-> SeriesStart],
                     second |-> NoSeries,
                     df |-> SeriesRecords(Reports[r1], Name1, v1, SeriesStart) ]
          \/ \E r2 \in DOMAIN Reports, v2 \in ScanShapes, off \in 0..MaxOffset :
                arg = [ first |-> [report |-> Reports[r1].id, vals |-> v1,
                                   start |-> SeriesStart],
                        second |-> [report |-> Reports[r2].id, vals |-> v2,
                                    start |-> SeriesStart + off],
                        df |-> SeriesRecords(Reports[r1], Name1, v1, SeriesStart)
                                 \o SeriesRecords(Reports[r2], Name2, v2, SeriesStart + off) ]
    /\ ret = NotCalled
    /\ InitSystem

CallCrossCorrelations ==
    /\ ret = NotCalled
    /\ ret' = [fn |-> "find_cross_correlations", r |-> find_cross_correlations(arg.df)]
    /\ UNCHANGED arg
    /\ UNCHANGED sysvars

CallTrendChanges ==
    /\ ret = NotCalled
    /\ ret' = [fn |-> "find_trend_changes", r |-> find_trend_changes(arg.df)]
    /\ UNCHANGED arg
    /\ UNCHANGED sysvars

CallBiggestMovers ==
    /\ ret = NotCalled
    /\ ret' = [fn |-> "find_biggest_movers", r |-> find_biggest_movers(arg.df)]
    /\ UNCHANGED arg
    /\ UNCHANGED sysvars

NextScan == CallCrossCorrelations \/ CallTrendChanges \/ CallBiggestMovers

SpecScan == InitScan /\ [][NextScan]_vars

----------------------------------------------------------------------------
(* Claims                                                                   *)

Ended == pc \in {"done", "zero_output", "crashed"}

\* the tables a run writes from its deduplicated records
NewSnapshot ==
    [ n \in TableNames |->
        CASE n = "timeseries" -> Table(combined)
          [] n = "catalog" -> Table(CatalogOf(combined))
          [] n = "variables" -> Table(VariablesOf(combined)) ]

C2_InsightTables ==
    ipc = "done" =>
        /\ db.insight_correlations = Table(found.correlations)
        /\ db.insight_trend_breaks = Table(found.changes)
        /\ db.insight_movers = Table(found.movers)

\* C3: no sheet makes ingest_all stop early: when the run has ended every
\* eligible sheet of the workbooks opened is counted as parsed or skipped.
C3_EverySheetCounted ==
    /\ pc # "crashed"
    /\ Ended => stats.sheets + stats.skipped = eligible

\* C4: a run in which no sheet produced a record ends in the ZeroOutput
\* outcome with the three tables as they were before; a run that produced
\* a record does not end in that outcome.
C4_ZeroOutput ==
    Ended =>
        /\ all_frames = <<>> => (pc = "zero_output" /\ Snapshot(db) = prior)
        /\ all_frames # <<>> => pc # "zero_output"

\* C5: every record the parsers emit, and so every row of timeseries, has
\* a value that is a number: neither None nor not-a-number.
C5_ValueNeverNull ==
    /\ \A f \in Range(all_frames) : \A x \in Range(f) : x.value.kind \notin {"None", "nan"}
    /\ \A x \in Range(db.timeseries.rows) : x.value.kind \notin {"None", "nan"}

InRange(y) == YearMin <= y /\ y <= YearMax

\* C6: for every y in [1960, 2030] the token str(y) parses to (y, str(y))
\* and str(y) + letter to (y, the token verbatim); a 4-digit token outside
\* the range, with or without a suffix, and None give (None, None).
C6_YearTokens ==
    ret.fn = "parse_year_value" =>
        /\ (arg.form \in {"plain", "suffix"} /\ InRange(arg.y))
              => ret.r = YearOf(arg.y, arg.cell.s)
        /\ (arg.form \in {"plain", "suffix"} /\ ~InRange(arg.y)) => ret.r = NoYear
        /\ arg.form = "none" => ret.r = NoYear

C6_Witness ==
    /\ ret.fn = "parse_year_value"
    /\ arg.form = "suffix" /\ arg.y = YearMax
    /\ ret.r.some /\ ret.r.label = arg.cell.s

\* C7: parse_year_value never raises, whatever the cell holds.
C7_NeverRaises == ret.fn = "parse_year_value" => ret.r.exc = ""

\* C8: clean_numeric maps the listed missing tokens to null, a number
\* written with ordinary or non-breaking spaces to its value ("12.5" to
\* 12.5), every text that is no float literal to null, and never raises.
C8_CleanNumeric ==
    ret.fn = "clean_numeric" =>
        /\ arg.form \in {"missing", "junk", "none"} => ret.r = NoneF
        /\ arg.form = "number" => ret.r = Fin(arg.neg, arg.n, 0 - arg.k)
        /\ arg.form = "nonfinite" => ret.r.kind \in {"nan", "inf"}
        /\ ret.r.kind # "ValueError"

C8_Witness ==
    /\ ret.fn = "clean_numeric"
    /\ arg.cell = Text(<<"2", "nbsp", "0", "1", "9", ".", "5">>)
    /\ ret.r = [kind |-> "fin", neg |-> FALSE, m |-> 20195, e |-> -1]

\* C9: header disambiguation leaves the first occurrence of a name as it
\* is and appends "_k" to its k-th repeat, in column order; the output has
\* the length and the order of the input.
C9_UniqueHeaders ==
    ret.fn = "unique_headers" =>
        /\ Len(ret.r) = Len(arg.headers)
        /\ \A i \in DOMAIN arg.headers :
              LET k == Cardinality({j \in 1..(i - 1) : arg.headers[j] = arg.headers[i]})
              IN  ret.r[i] = IF k = 0 THEN arg.headers[i]
                             ELSE arg.headers[i] \o <<"_">> \o StrOfInt(k)
        /\ arg.headers = << <<"a">>, <<"a">>, <<"b">> >>
              => ret.r = << <<"a">>, <<"a", "_", "1">>, <<"b">> >>

C9_Witness ==
    /\ ret.fn = "unique_headers"
    /\ arg.headers = << <<"a">>, <<"a">>, <<"b">>, <<"a">> >>
    /\ ret.r = << <<"a">>, <<"a", "_", "1">>, <<"b">>, <<"a", "_", "2">> >>

\* the label of a row, as text and stripped
LabelText(labels, i) == Strip(Str(labels[i]))

\* a row that is passed over: no label, a blank one, a footnote or source
LabelSkipped(labels, i) ==
    IsNone(labels[i]) \/ LabelText(labels, i) = <<>> \/ IsFootnote(LabelText(labels, i))

LabelIndented(labels, i) == Str(labels[i]) # LabelText(labels, i)

RECURSIVE ParentAfter(_, _)
\* the current parent after the first i rows: the label of the last row
\* that was not passed over and was not an indented row under a parent
ParentAfter(labels, i) ==
    IF i = 0 THEN <<>>
    ELSE IF LabelSkipped(labels, i)
            \/ (LabelIndented(labels, i) /\ ParentAfter(labels, i - 1) # <<>>)
         THEN ParentAfter(labels, i - 1)
         ELSE LabelText(labels, i)

\* the variable names under which the values of row i were emitted
VariablesOfRow(records, i) ==
    { x.variable : x \in { y \in Range(records) :
                             \E c \in DOMAIN WideYears : y.value = Fin(FALSE, WideValue(i, c), 0) } }

\* C10: a wide row indented under a current parent P with label C is
\* emitted as norm(P) + "__" + norm(C), a row that is not indented (or has
\* no parent) as its normalized label alone.
C10_ParentChild ==
    ret.fn = "parse_sheet_to_long" =>
        \A i \in DOMAIN arg.labels :
            ~LabelSkipped(arg.labels, i) =>
                VariablesOfRow(ret.r.records, i) =
                    { IF LabelIndented(arg.labels, i) /\ ParentAfter(arg.labels, i - 1) # <<>>
                      THEN clean_text(ParentAfter(arg.labels, i - 1)) \o <<"_", "_">>
                             \o clean_text(LabelText(arg.labels, i))
                      ELSE clean_text(LabelText(arg.labels, i)) }

\* C11: deduplication collapses the records that are equal in all fields
\* to one, keeps every other record, and is idempotent.
C11_Dedup ==
    combined # <<>> =>
        /\ Range(combined) = Range(Concat(all_frames))
        /\ \A i, j \in DOMAIN combined : combined[i] = combined[j] => i = j
        /\ drop_duplicates(combined) = combined

C11_Witness ==
    /\ pc = "done"
    /\ Len(combined) < Len(Concat(all_frames))
    /\ \E i, j \in DOMAIN combined :
          /\ combined[i].variable = combined[j].variable
          /\ combined[i].year = combined[j].year
          /\ combined[i].value # combined[j].value

\* the key of a record in the integrity query
KeyOfRecord(x) == <<x.report, x.table_id, x.variable, x.year, x.year_label>>

\* C12: the integrity check flags a key (report, table_id, variable, year,
\* year_label) exactly when the table holds two different values for it (a
\* NULL is no value), and it leaves the rows of timeseries as they are.
C12_IntegrityCheck ==
    [][ (pc = "integrity" /\ pc' = "done") =>
          /\ db' = db
          /\ db.timeseries = Table(combined)
          /\ \A k \in conflicts' : \E x \in Range(combined) : k = KeyOfRecord(x)
          /\ \A x \in Range(combined) :
                KeyOfRecord(x) \in conflicts'
                <=> \E y, z \in Range(combined) :
                       /\ KeyOfRecord(y) = KeyOfRecord(x)
                       /\ KeyOfRecord(z) = KeyOfRecord(x)
                       /\ y.value.kind # "nan" /\ z.value.kind # "nan"
                       /\ y.value # z.value ]_vars

C12_Witness ==
    /\ pc = "done"
    /\ conflicts # {}
    /\ \E x \in Range(db.timeseries.rows) : KeyOfRecord(x) \notin conflicts

\* two series with the same values over the same MinOverlap years, not
\* constant
IdenticalPair ==
    /\ arg.second # NoSeries
    /\ arg.second.vals = arg.first.vals
    /\ arg.second.start = arg.first.start
    /\ Len(arg.first.vals) = MinOverlap
    /\ Cardinality(Range(arg.first.vals)) > 1

FirstSeriesRows == {e \in ret.r : e.table_id = Name1}

C15_FlatHistoryRising ==
    ret.fn = "find_biggest_movers" /\ arg.first.vals = MoverFlat =>
        \E e \in FirstSeriesRows : e.direction = "rising"

\* C15 amended: a history constant at 10 has no standard deviation to
\* measure the window by and the series is passed over, no row is returned
\* for it; a history of 10, 11, 10, 11, 10 before the five values at 50
\* makes one row, direction rising.
C15_FlatHistoryRejected ==
    ret.fn = "find_biggest_movers" =>
        /\ arg.first.vals = MoverFlat => FirstSeriesRows = {}
        /\ arg.first.vals = MoverNoisy =>
              \E e \in FirstSeriesRows :
                  /\ FirstSeriesRows = {e}
                  /\ e.direction = "rising"
                  /\ e.latest_year = arg.first.start + Len(MoverNoisy) - 1

C15_Witness ==
    /\ ret.fn = "find_biggest_movers"
    /\ arg.first.vals = MoverFlat
    /\ arg.second = NoSeries
    /\ ret.r = {}

\* C16: after ingest_all, catalog holds exactly one entry for every
\* (report, table_id) of timeseries, a table without a title included, and
\* the records of the entries add up to the rows of timeseries (each entry
\* counts the rows of its table).
C16_CatalogComplete ==
    pc = "done" =>
        /\ \A x \in Range(db.timeseries.rows) :
              Cardinality({c \in db.catalog.rows :
                              c.report = x.report /\ c.table_id = x.table_id}) = 1
        /\ \A c \in db.catalog.rows :
              c.records = Cardinality({i \in DOMAIN db.timeseries.rows :
                                          /\ db.timeseries.rows[i].report = c.report
                                          /\ db.timeseries.rows[i].table_id = c.table_id})

\* C17: the programs own disjoint tables. A step of ingest_all changes no
\* table but timeseries, catalog and variables, a step of run_all_insights
\* none but the three insight tables (and what it loads is timeseries), a
\* step of fetch_and_store_kolada none but kolada, and a query of the UI or
\* of the assistant, on their read-only connections, changes no table.
C17_TableOwnership ==
    [][ /\ pc' # pc => \A n \in AllTables \ TableNames : db'[n] = db[n]
        /\ ipc' # ipc => \A n \in AllTables \ InsightTables : db'[n] = db[n]
        /\ ipc' = "loaded" => idf' = db.timeseries.rows
        /\ kpc' # kpc => \A n \in AllTables \ KoladaTables : db'[n] = db[n]
        /\ (pc' = pc /\ ipc' = ipc /\ kpc' = kpc) => db' = db ]_vars

C17_Witness ==
    /\ db.timeseries.exists /\ db.kolada.exists
    /\ \E n \in InsightTables : db[n].exists
    /\ pc = "done" /\ ipc = "done" /\ kpc = "done"

\* the rows of the sheet at hand that hold a value
NonEmptyRows == {i \in DOMAIN arg.rows : \E c \in DOMAIN arg.rows[i] : ~IsNone(arg.rows[i][c])}

\* C18: a sheet with fewer than 3 non-empty rows is rejected whatever the
\* number of its rows: parse_sheet_to_long returns no records for it (and
\* ingest_all counts it as skipped).
C18_SparseRejected ==
    ret.fn = "parse_sheet_to_long" /\ Cardinality(NonEmptyRows) < 3 =>
        ret.r.exc = "" /\ ret.r.records = <<>>

\* the rows of the sheet at hand whose first cell is a year
YearLedRows == {i \in DOMAIN arg.rows : is_year_like(FirstCell(arg.rows[i])).b}

\* the rows with at least WideMinYears year-like cells
YearHeaderRows == {i \in DOMAIN arg.rows : YearCount(arg.rows[i]).n >= WideMinYears}

\* C19: a sheet with no year-led row among its first 8 rows is never parsed
\* as long format: it gives the records of the wide format if one of its
\* first 8 rows holds at least 3 year-like cells and is rejected otherwise.
C19_AnchorWindow ==
    ret.fn = "parse_sheet_to_long" /\ YearLedRows \cap (1..WideScan) = {} =>
        /\ arg.kind = "long" => ret.r.records = <<>>
        /\ ret.r.records # <<>> <=> YearHeaderRows \cap (1..WideScan) # {}

\* C20: the header row of a long-format sheet is the row above the first
\* year-led row d, or the one above that when the row above is entirely
\* empty, and for every d it lies strictly above row d.
C20_HeaderAbove ==
    ret.fn = "parse_sheet_to_long" /\ YearLedRows # {} /\ Len(arg.rows) >= 3 =>
        HeaderRowIdx(arg.rows, SetMin(YearLedRows)) < SetMin(YearLedRows)


----------------------------------------------------------------------------
\* The header merge of parse_sheet_to_long on its own (SpecMerge): a group
\* row and a header row of the same width, as openpyxl yields them.

MaxMergeWidth == 3

Nav == <<"T","i","l","l","b","a","k","a">>

GroupCells == { EmptyCell, Text(<<" ">>), Text(<<"G">>), Text(<<"H", " ">>), Text(Nav) }

SubCells == { EmptyCell, Text(<<"s">>), Number(<<"7">>) }

SeqsOfLen(S, n) == { s \in SeqsUpTo(S, n) : Len(s) = n }

InitMerge ==
    /\ \E w \in 1..MaxMergeWidth :
          \E group_row \in SeqsOfLen(GroupCells, w), raw_headers \in SeqsOfLen(SubCells, w) :
              arg = [group_row |-> group_row, raw_headers |-> raw_headers]
    /\ ret = NotCalled
    /\ InitSystem

CallMergedHeaders ==
    /\ ret = NotCalled
    /\ ret' = [fn |-> "merged_headers", r |-> MergedHeaders(arg.group_row, arg.raw_headers)]
    /\ UNCHANGED arg
    /\ UNCHANGED sysvars

NextMerge == CallMergedHeaders

SpecMerge == InitMerge /\ [][NextMerge]_vars

\* the stripped text of a group-row cell that can serve as a group, <<>> otherwise
GroupText(cell) ==
    IF IsNone(cell) \/ Strip(Str(cell)) = <<>> \/ IsNavigation(Strip(Str(cell)))
    THEN <<>> ELSE Strip(Str(cell))

\* the last group text at or before column i (1-based), <<>> if there is none
GroupAt(group_row, i) ==
    IF \E j \in 1..i : GroupText(group_row[j]) # <<>>
    THEN GroupText(group_row[CHOOSE j \in 1..i :
                       /\ GroupText(group_row[j]) # <<>>
                       /\ \A k \in (j+1)..i : GroupText(group_row[k]) = <<>>])
    ELSE <<>>

SubAt(raw_headers, i) == IF IsNone(raw_headers[i]) THEN <<>> ELSE Strip(Str(raw_headers[i]))

\* the raw name the merge rule gives column i (1-based; the placeholder counts from 0)
ResolvedName(group_row, raw_headers, i) ==
    LET g == GroupAt(group_row, i)
        s == SubAt(raw_headers, i)
    IN  IF g # <<>> /\ s # <<>> THEN g \o Sep2 \o s
        ELSE IF s # <<>> THEN s
        ELSE IF g # <<>> THEN g
        ELSE Col(i - 1)

\* C21: for every column of the header, column 0 included, the merged raw
\* name is group__subheader when the current group and the subheader both
\* exist, the one that exists when only one does, and col_i when neither
\* does; the current group is the last non-empty, non-navigation cell of the
\* group row at or before the column.
C21_MergeEveryColumn ==
    (ret # NotCalled /\ ret.fn = "merged_headers") =>
        \A i \in 1..Len(arg.raw_headers) :
            ret.r[i] = ResolvedName(arg.group_row, arg.raw_headers, i)

\* a label that begins with whitespace
LeadingIndented(labels, i) == LStrip(Str(labels[i])) # Str(labels[i])

RECURSIVE ParentByLead(_, _)
\* the current parent after the first i rows when only a label that begins
\* with whitespace is a child
ParentByLead(labels, i) ==
    IF i = 0 THEN <<>>
    ELSE IF LabelSkipped(labels, i)
            \/ (LeadingIndented(labels, i) /\ ParentByLead(labels, i - 1) # <<>>)
         THEN ParentByLead(labels, i - 1)
         ELSE LabelText(labels, i)

\* C22: in the wide row walk a label is a child of the current parent
\* exactly when it begins with whitespace and a parent is present; a label
\* that does not begin with whitespace, one with only trailing whitespace
\* included, becomes the current parent and is emitted under its own name.
C22_LeadingWhitespace ==
    ret.fn = "parse_sheet_to_long" =>
        \A i \in DOMAIN arg.labels :
            ~LabelSkipped(arg.labels, i) =>
                VariablesOfRow(ret.r.records, i) =
                    { IF LeadingIndented(arg.labels, i) /\ ParentByLead(arg.labels, i - 1) # <<>>
                      THEN ChildVariable(ParentByLead(arg.labels, i - 1), LabelText(arg.labels, i))
                      ELSE clean_text(LabelText(arg.labels, i)) }

\* a row with no label, a blank label, or a label that starts with one of
\* the footnote and source prefixes
FootnoteOrEmpty(labels, i) ==
    \/ IsNone(labels[i])
    \/ LabelText(labels, i) = <<>>
    \/ \E p \in Footnotes : StartsWith(LabelText(labels, i), p)

\* C23: in the wide row walk a row whose stripped label starts with a
\* footnote or source prefix, and a row with an empty label, emits no record
\* and leaves the current parent as it was: an indented row right after it
\* is attached to the parent in force before it.
C23_SkippedRows ==
    ret.fn = "parse_sheet_to_long" =>
        \A i \in DOMAIN arg.labels :
            FootnoteOrEmpty(arg.labels, i) =>
                /\ VariablesOfRow(ret.r.records, i) = {}
                /\ (/\ i + 1 \in DOMAIN arg.labels
                    /\ ~FootnoteOrEmpty(arg.labels, i + 1)
                    /\ LabelIndented(arg.labels, i + 1)
                    /\ ParentAfter(arg.labels, i - 1) # <<>>)
                   => VariablesOfRow(ret.r.records, i + 1) =
                         { ChildVariable(ParentAfter(arg.labels, i - 1),
                                         LabelText(arg.labels, i + 1)) }

C23_Witness ==
    /\ ret.fn = "parse_sheet_to_long"
    /\ Len(arg.labels) = 3
    /\ StartsWith(LabelText(arg.labels, 2), <<"K","a_uml","l","l","a">>)
    /\ LabelIndented(arg.labels, 3)
    /\ ParentAfter(arg.labels, 1) = <<"V","i","n">>
    /\ VariablesOfRow(ret.r.records, 2) = {}
    /\ VariablesOfRow(ret.r.records, 3) = { <<"v","i","n","_","r","o_uml","t","t">> }


----------------------------------------------------------------------------
\* parse_sheet_to_long on long sheets whose rows differ in length
\* (SpecLong): a group row, a header row, the year row 2019 and a fourth row
\* that is a year row or a text row.  The value of row r, column c is
\* 10 * r + c, or the missing marker ".".

MaxRowLen == 3

\* a group row of g cells: the label G over column 1
LongGroupRow(g) == [c \in 1..g |-> IF c = 2 THEN Text(<<"G">>) ELSE EmptyCell]

\* a header row of h cells
LongHeaderRow(h) ==
    [c \in 1..h |-> IF c = 1 THEN Text(<<"A_ring","r">>)
                    ELSE IF c = 2 THEN Text(<<"x">>) ELSE Text(<<"y">>)]

LongFirstCells == { Text(<<"2","0","2","0","a">>), Text(<<"S","u","m","m","a">>) }

LongValue(r, c) == 10 * r + c


LongCell(kind, r, c) ==
    IF kind = "value" THEN Number(StrOfInt(LongValue(r, c))) ELSE Text(<<".">>)

LongRow(first, r, kinds) ==
    <<first>> \o [c \in DOMAIN kinds |-> LongCell(kinds[c], r, c + 1)]

InitLong ==
    /\ \E g \in 1..MaxRowLen, h \in 1..MaxRowLen :
       \E k3 \in SeqsUpTo({"value", "missing"}, MaxRowLen - 1),
          k4 \in SeqsUpTo({"value", "missing"}, MaxRowLen - 1),
          first \in LongFirstCells :
          arg = [rows |-> << LongGroupRow(g), LongHeaderRow(h),
                             LongRow(Text(<<"2","0","1","9">>), 3, k3),
                             LongRow(first, 4, k4) >>]
    /\ ret = NotCalled
    /\ InitSystem

NextLong == CallParseSheet

SpecLong == InitLong /\ [][NextLong]_vars

\* the cells (row, column) of the data rows that lie in a year row, in a
\* data column, and hold a value that is not null
ValueCells(rows) ==
    { rc \in (3..Len(rows)) \X (2..MaxRowLen) :
        /\ rc[2] <= Len(rows[rc[1]])
        /\ parse_year_value(rows[rc[1]][1]).some
        /\ clean_numeric(rows[rc[1]][rc[2]]) # NoneF }

\* C24: the records of a long sheet correspond one to one to the cells of
\* the year rows, in the data columns, whose value is not null: none of
\* these cells is dropped, whatever the lengths of the header row and of the
\* group row above it, nothing else is emitted, and each record carries the
\* year and year_label of its row and the resolved name of its column.
C24_OneRecordPerCell ==
    ret.fn = "parse_sheet_to_long" =>
        LET rows == arg.rows
            names == unique_headers(CleanHeaders(rows, 2))
        IN  /\ ret.r.exc = ""
            /\ Len(ret.r.records) = Cardinality(ValueCells(rows))
            /\ \A rc \in ValueCells(rows) :
                  \E k \in DOMAIN ret.r.records :
                      LET rec == ret.r.records[k]
                          y == parse_year_value(rows[rc[1]][1])
                      IN  /\ rec.value = clean_numeric(rows[rc[1]][rc[2]])
                          /\ rec.year = y.year
                          /\ rec.year_label = y.label
                          /\ (rc[2] <= Len(names) => rec.variable = names[rc[2]])

\* C30: after the disambiguation the resolved column names of a header row
\* are pairwise distinct, also when a header already has the form name_k:
\* two columns of a sheet never share a variable name.
C30_NamesDistinct ==
    ret.fn = "unique_headers" =>
        \A i, j \in DOMAIN ret.r : ret.r[i] = ret.r[j] => i = j


----------------------------------------------------------------------------
\* find_cross_correlations with its ranking (SpecRank): one series of the
\* first report and two of the second, and a top_n that can cut the result

\* r^2 of pearsonr as a fraction
PearsonSq(x, y) ==
    [ num |-> (Len(x) * Dot(x, y) - Sum(x) * Sum(y)) * (Len(x) * Dot(x, y) - Sum(x) * Sum(y)),
      den |-> VarN(x) * VarN(y) ]

\* abs(round(r, 3)) in thousandths for abs(r) > 0.7: the m with
\* (m - 1/2) / 1000 <= abs(r) < (m + 1/2) / 1000
RoundThousandths(sq) ==
    CHOOSE m \in 700..1000 :
        /\ ~FracLess(sq.num, sq.den, (2 * m - 1) * (2 * m - 1), 4000000)
        /\ FracLess(sq.num, sq.den, (2 * m + 1) * (2 * m + 1), 4000000)

\* r^2 of two pivot columns over their common years
PairPearsonSq(p, c1, c2) ==
    LET common == Range(YearsOf(Series(p, c1))) \cap Range(YearsOf(Series(p, c2)))
    IN  PearsonSq(Reduced(Ints(ValuesOf(AtYears(Series(p, c1), common)))),
                  Reduced(Ints(ValuesOf(AtYears(Series(p, c2), common)))))

\* the rows of results with the column abs_corr
ResultsOf(df, p) ==
    { row @@ [abs_corr |-> RoundThousandths(PairPearsonSq(p, row.series_1, row.series_2))] :
        row \in CorrelationsOf(df, p) }

RECURSIVE SortValues(_)
\* sort_values("abs_corr", ascending=False): the orders the sort can leave
\* the rows in (the default sort is not stable: equal keys in any order)
SortValues(rows) ==
    IF rows = {} THEN {<<>>}
    ELSE UNION { { <<row>> \o s : s \in SortValues(rows \ {row}) } :
                   row \in { x \in rows : \A y \in rows : y.abs_corr <= x.abs_corr } }

\* .head(top_n)
HeadOf(s, top_n) == SubSeq(s, 1, Min(top_n, Len(s)))

\* find_cross_correlations(df, min_overlap=10, top_n): the results it can return
RankedCorrelations(df, top_n) ==
    { HeadOf(s, top_n) : s \in SortValues(ResultsOf(df, NotNaN(df))) }

MaxTopN == 2

Base == <<0, 1, 2, 3, 4, 5, 6, 7, 8, 9>>
Line == <<0, 10, 20, 30, 40, 50, 60, 70, 80, 90>>
LineBump == <<0, 10, 20, 30, 41, 50, 60, 70, 80, 90>>
Rough == <<0, 30, 10, 50, 40, 60, 50, 90, 70, 80>>
Down == <<9, 8, 7, 6, 5, 4, 3, 2, 1, 0>>
Weak == <<1, 2, 1, 2, 1, 2, 1, 2, 1, 2>>

RankShapes == {Line, LineBump, Rough, Down, Weak}

InitRank ==
    /\ \E v1 \in RankShapes, v2 \in RankShapes, off \in 0..MaxOffset, top_n \in 1..MaxTopN :
          arg = [ top_n |-> top_n,
                  df |-> SeriesRecords(Reports[1], Name1, Base, SeriesStart)
                           \o SeriesRecords(Reports[2], Name1, v1, SeriesStart)
                           \o SeriesRecords(Reports[2], Name2, v2, SeriesStart + off) ]
    /\ ret = NotCalled
    /\ InitSystem

CallRankedCorrelations ==
    /\ ret = NotCalled
    /\ \E out \in RankedCorrelations(arg.df, arg.top_n) :
          ret' = [fn |-> "find_cross_correlations", r |-> out]
    /\ UNCHANGED arg
    /\ UNCHANGED sysvars

NextRank == CallRankedCorrelations

SpecRank == InitRank /\ [][NextRank]_vars

\* abs(r) of the first row is less than abs(r) of the second
WeakerThan(df, row1, row2) ==
    LET a == PairPearsonSq(NotNaN(df), row1.series_1, row1.series_2)
        b == PairPearsonSq(NotNaN(df), row2.series_1, row2.series_2)
    IN  FracLess(a.num, a.den, b.num, b.den)

\* C25: find_cross_correlations returns at most top_n edges, in
\* non-increasing order of |r|, each computed over at least min_overlap
\* common years, and they are the strongest: no qualifying pair left out has
\* a larger |r| than a pair that is returned.
C25_TopStrongest ==
    ret.fn = "find_cross_correlations" =>
        LET out == ret.r
            all == ResultsOf(arg.df, NotNaN(arg.df))
        IN  /\ Len(out) <= arg.top_n
            /\ \A i, j \in DOMAIN out : i < j => ~WeakerThan(arg.df, out[i], out[j])
            /\ \A i \in DOMAIN out : out[i].overlap_years >= MinOverlap
            /\ \A q \in all \ Range(out) :
                  \A i \in DOMAIN out : ~WeakerThan(arg.df, out[i], q)

\* the t-test of a series of values split after its first k points
SplitAt(v, k) == Welch(SubSeq(v, 1, k), SubSeq(v, k + 1, Len(v)), k)

\* the splits that leave at least SplitMargin points on each side and do
\* not have two constant sides
SplitsWithMargin(v) ==
    { k \in SplitMargin..(Len(v) - SplitMargin) : SplitAt(v, k).valid }

\* C26: for a series of at least the minimum length find_trend_changes
\* evaluates every split that leaves at least 4 points on each side, except
\* where both sides are constant: a split of this kind with |t| > 3.0 puts
\* the series in the output, at a split whose |t| is no less.
C26_EverySplitEvaluated ==
    ret.fn = "find_trend_changes" /\ Len(arg.first.vals) >= MinYears =>
        LET v == Reduced(arg.first.vals)
        IN  \A k \in SplitsWithMargin(v) :
                SplitAt(v, k).num > 9 * SplitAt(v, k).den =>
                    \E e \in FirstSeriesRows :
                        ~FracLess(SplitAt(v, e.break_year - arg.first.start).num,
                                  SplitAt(v, e.break_year - arg.first.start).den,
                                  SplitAt(v, k).num, SplitAt(v, k).den)

\* the splits the loop of find_trend_changes evaluates
SplitsEvaluated(v) ==
    { k \in SplitMargin..(Len(v) - SplitMargin - 1) : SplitAt(v, k).valid }

\* C27: a series is at most once in the output of find_trend_changes, at
\* the evaluated split with the largest |t|, and it is discarded exactly
\* when its largest |t| is below 3.0.
C27_FloorAndMaximum ==
    ret.fn = "find_trend_changes" /\ Len(arg.first.vals) >= MinYears =>
        LET v == Reduced(arg.first.vals)
        IN  /\ Cardinality(FirstSeriesRows) <= 1
            /\ \A e \in FirstSeriesRows :
                  /\ e.break_year - arg.first.start \in SplitsEvaluated(v)
                  /\ \A k \in SplitsEvaluated(v) :
                        ~FracLess(SplitAt(v, e.break_year - arg.first.start).num,
                                  SplitAt(v, e.break_year - arg.first.start).den,
                                  SplitAt(v, k).num, SplitAt(v, k).den)
            /\ FirstSeriesRows = {}
                  <=> \A k \in SplitsEvaluated(v) : SplitAt(v, k).num < 9 * SplitAt(v, k).den

\* the values of the series a row of a scanner belongs to
ValuesOfRow(e) == IF e.table_id = Name1 THEN arg.first.vals ELSE arg.second.vals

\* C28: every record of find_biggest_movers belongs to a series of at
\* least window + 5 points whose historical prefix (all but the last window
\* points) is not constant, has |z| > 2.0, and has direction "rising"
\* exactly when z > 0; a series with fewer points or a constant historical
\* prefix is not in the output.
C28_MoversSound ==
    ret.fn = "find_biggest_movers" =>
        /\ \A e \in ret.r :
              LET vals == ValuesOfRow(e)
                  h == SubSeq(vals, 1, Len(vals) - Window)
                  r == SubSeq(vals, Len(vals) - Window + 1, Len(vals))
                  diff == Len(h) * Sum(r) - Len(r) * Sum(h)
              IN  /\ Len(vals) >= Window + MinHistory
                  /\ \E i, j \in DOMAIN h : h[i] # h[j]
                  /\ diff * diff > 4 * Len(r) * Len(r) * VarN(h)
                  /\ e.direction = "rising" <=> diff > 0
                  /\ e.direction \in {"rising", "falling"}
        /\ (\/ Len(arg.first.vals) < Window + MinHistory
            \/ \A i, j \in 1..(Len(arg.first.vals) - Window) :
                  arg.first.vals[i] = arg.first.vals[j])
           => FirstSeriesRows = {}

C28_Witness ==
    /\ ret.fn = "find_biggest_movers"
    /\ arg.first.vals = MoverDrop
    /\ arg.second.vals = MoverNoisy
    /\ Cardinality(ret.r) = 2
    /\ \A e \in ret.r : e.direction = "falling" <=> e.table_id = Name1


----------------------------------------------------------------------------
\* chat_engine.py: the citations of an answer (SpecCite).  A result frame
\* is its columns, each with the values of its rows.

CanId(n) == <<"C","A","N","-">> \o StrOfInt(n)

\* the report ids REPORT_SOURCES has an entry for
REPORT_SOURCES == { CanId(n) : n \in 233..239 }

Kolada == <<"K","O","L","A","D","A">>

\* sorted(reports_used), for the ids a citation is written for
SourceOrder == [i \in 1..7 |-> CanId(232 + i)] \o <<Kolada>>

NoData == [none |-> TRUE, columns |-> {}, len |-> 0, values |-> <<>>]

Frame(len, values) ==
    [none |-> FALSE, columns |-> DOMAIN values, len |-> len, values |-> values]

\* report_id.lower() in str(data[col].values).lower()
Mentions(data, report_id) ==
    \E col \in data.columns : \E i \in 1..data.len :
        /\ ~IsNone(data.values[col][i])
        /\ Contains(Lower(Str(data.values[col][i])), Lower(report_id))

\* get_source_citations(data): the ids of the citation lines, in order
\* (the empty sequence: the empty string)
get_source_citations(data) ==
    IF data.none \/ data.len = 0 THEN <<>>
    ELSE
    LET from_column == IF "report" \in data.columns
                       THEN { Str(data.values["report"][i]) :
                                i \in { j \in 1..data.len : ~IsNone(data.values["report"][j]) } }
                       ELSE {}
        reports_used == from_column \cup { id \in REPORT_SOURCES : Mentions(data, id) }
        with_kolada == IF "kpi_title" \in data.columns \/ "municipality_name" \in data.columns
                       THEN reports_used \cup {Kolada} ELSE reports_used
    IN  IF reports_used = {} THEN <<>>
        ELSE SelectSeq(SourceOrder, LAMBDA id : id \in with_kolada)

\* ask_data(question): no SQL was formulated, the SQL failed, or it gave
\* the frame data
ask_data(outcome, data) ==
    IF outcome = "no_sql" THEN [sql |-> FALSE, data |-> NoData, sources |-> <<>>, error |-> FALSE]
    ELSE IF outcome = "sql_error"
    THEN [sql |-> TRUE, data |-> NoData, sources |-> <<>>, error |-> TRUE]
    ELSE IF data.len = 0 THEN [sql |-> TRUE, data |-> data, sources |-> <<>>, error |-> FALSE]
    ELSE [sql |-> TRUE, data |-> data, sources |-> get_source_citations(data), error |-> FALSE]

MaxResultRows == 2

ReportValues ==
    { Text(CanId(233)), Text(CanId(236)), Text(CanId(239)), Text(<<"C","A","N","-","9">>),
      EmptyCell }

LabelValues == { Text(<<"x">>), Text(<<"c","a","n","-","2","3","4"," ","p","r","i","s">>) }

Years(n) == [i \in 1..n |-> Number(StrOfInt(SeriesStart + i))]

\* the frames the queries of the assistant give: rows of timeseries with
\* and without the column report, rows of kolada, and rows of both
ResultFrames ==
    UNION { { Frame(n, [report |-> r, year |-> Years(n)]) : r \in SeqsOfLen(ReportValues, n) }
            \cup { Frame(n, [label |-> l, value |-> Years(n)]) : l \in SeqsOfLen(LabelValues, n) }
            \cup { Frame(n, [kpi_title |-> l, municipality_name |-> l, year |-> Years(n)]) :
                     l \in SeqsOfLen(LabelValues, n) }
            \cup { Frame(n, [report |-> r, kpi_title |-> [i \in 1..n |-> Text(<<"x">>)]]) :
                     r \in SeqsOfLen(ReportValues, n) } : n \in 0..MaxResultRows }

InitCite ==
    /\ \E outcome \in {"no_sql", "sql_error", "data"} :
          \E data \in (IF outcome = "data" THEN ResultFrames ELSE {NoData}) :
              arg = [outcome |-> outcome, data |-> data]
    /\ ret = NotCalled
    /\ InitSystem

CallAskData ==
    /\ ret = NotCalled
    /\ ret' = [fn |-> "ask_data", r |-> ask_data(arg.outcome, arg.data)]
    /\ UNCHANGED arg
    /\ UNCHANGED sysvars

NextCite == CallAskData

SpecCite == InitCite /\ [][NextCite]_vars

\* C29: every answer of ask_data with result rows has a citation that is
\* not empty and names the source of the rows, also when the result has no
\* column report and when the rows come from kolada alone.
C29_AnswerCited ==
    (ret.fn = "ask_data" /\ ~ret.r.data.none /\ ret.r.data.len > 0) =>
        /\ ret.r.sources # <<>>
        /\ "kpi_title" \in ret.r.data.columns => Kolada \in Range(ret.r.sources)

====
